---- MODULE Spec2Model ----
(***************************************************************************)
(* InfraBlocks: the graph-to-Terraform compiler (TerraformGenerator) and   *)
(* the collaborators it reads.  A JavaScript value is a tagged record, a   *)
(* JavaScript object an ordered list of key/value entries (insertion       *)
(* order, as Object.entries walks it), a JavaScript string a TLA+ string   *)
(* handled character by character with Len, SubSeq and \o.                 *)
(***************************************************************************)
EXTENDS Naturals, Sequences, FiniteSets, TLC

\* ------------------------------------------------------------------ bounds
MaxNodes == 2
MaxEdges == 2
MaxClock == 1

\* ------------------------------------------------------- JavaScript values
Str(s) == [t |-> "string", s |-> s]
Num(n) == [t |-> "number", n |-> n]
Bool(b) == [t |-> "boolean", b |-> b]
Arr(l) == [t |-> "array", l |-> l]
Obj(o) == [t |-> "object", o |-> o]
Fn(f) == [t |-> "function", f |-> f]
Null == [t |-> "null"]
Undefined == [t |-> "undefined"]
NaN == [t |-> "NaN"]

\* JavaScript truthiness, as used by `a || b` and `cond ? x : y`.
Truthy(v) ==
  CASE v.t = "string" -> v.s # ""
    [] v.t = "number" -> v.n # 0
    [] v.t = "boolean" -> v.b
    [] v.t \in {"null", "undefined", "NaN"} -> FALSE
    [] OTHER -> TRUE

\* a || b
Or(a, b) == IF Truthy(a) THEN a ELSE b

\* ------------------------------------------------------ ordered JS objects
Entry(k, v) == [k |-> k, v |-> v]

Keys(o) == {o[i].k : i \in 1..Len(o)}

Has(o, k) == k \in Keys(o)

\* o[k]: the value of the entry with key k, undefined when there is none.
Get(o, k) ==
  IF Has(o, k) THEN o[CHOOSE i \in 1..Len(o) : o[i].k = k].v ELSE Undefined

\* o[k] = v: an existing key keeps its place, a new key is appended.
Put(o, k, v) ==
  IF Has(o, k)
  THEN [i \in 1..Len(o) |-> IF o[i].k = k THEN Entry(k, v) ELSE o[i]]
  ELSE Append(o, Entry(k, v))

\* { ...a, ...b }
RECURSIVE Spread(_, _)
Spread(a, b) ==
  IF b = <<>> THEN a ELSE Spread(Put(a, Head(b).k, Head(b).v), Tail(b))

\* ------------------------------------------------------------------ strings
UpperChars == "ABCDEFGHIJKLMNOPQRSTUVWXYZ"
LowerChars == "abcdefghijklmnopqrstuvwxyz"
DigitChars == "0123456789"

Char(s, i) == SubSeq(s, i, i)

\* The 1-based place of character c in s, 0 when s does not hold it.
RECURSIVE IndexFrom(_, _, _)
IndexFrom(c, s, i) ==
  IF i > Len(s) THEN 0 ELSE IF Char(s, i) = c THEN i ELSE IndexFrom(c, s, i + 1)

IndexOf(c, s) == IndexFrom(c, s, 1)

StartsWith(s, p) == Len(s) >= Len(p) /\ SubSeq(s, 1, Len(p)) = p

\* Character tables, built once.
UpperSet == {Char(UpperChars, i) : i \in 1..Len(UpperChars)}
AlnumSet == {Char(LowerChars, i) : i \in 1..Len(LowerChars)}
              \cup {Char(DigitChars, i) : i \in 1..Len(DigitChars)}
LowerOf == [c \in UpperSet |-> Char(LowerChars, IndexOf(c, UpperChars))]

ToLowerChar(c) == IF c \in UpperSet THEN LowerOf[c] ELSE c

\* .replace(/[^a-z0-9]/g, "_") after .toLowerCase(), one character.
SanitizeChar(c) ==
  LET l == ToLowerChar(c) IN IF l \in AlnumSet THEN l ELSE "_"

\* .toLowerCase().replace(/[^a-z0-9]/g, "_").replace(/_+/g, "_"): acc is the
\* text produced so far, a "_" is dropped when acc already ends in one.
RECURSIVE SanitizeFrom(_, _, _)
SanitizeFrom(s, i, acc) ==
  IF i > Len(s) THEN acc
  ELSE LET c == SanitizeChar(Char(s, i))
       IN IF c = "_" /\ Len(acc) > 0 /\ Char(acc, Len(acc)) = "_"
          THEN SanitizeFrom(s, i + 1, acc)
          ELSE SanitizeFrom(s, i + 1, acc \o c)

\* .replace(/^_|_$/g, ""): one leading and one trailing underscore go.
TrimUnderscore(s) ==
  LET a == IF Len(s) > 0 /\ Char(s, 1) = "_" THEN SubSeq(s, 2, Len(s)) ELSE s
  IN IF Len(a) > 0 /\ Char(a, Len(a)) = "_" THEN SubSeq(a, 1, Len(a) - 1) ELSE a

sanitizeName(name) == TrimUnderscore(SanitizeFrom(name, 1, ""))


\* Number.parseInt(v): a number is itself; a string gives the number its
\* leading digits spell, NaN when it has none; anything else NaN.
RECURSIVE DigitsValue(_, _, _)
DigitsValue(s, i, acc) ==
  IF i > Len(s) \/ IndexOf(Char(s, i), DigitChars) = 0 THEN acc
  ELSE DigitsValue(s, i + 1, acc * 10 + (IndexOf(Char(s, i), DigitChars) - 1))

parseInt(v) ==
  CASE v.t = "number" -> v
    [] v.t = "string" ->
         IF Len(v.s) > 0 /\ IndexOf(Char(v.s, 1), DigitChars) > 0
         THEN Num(DigitsValue(v.s, 1, 0)) ELSE NaN
    [] OTHER -> NaN

\* `${v}` inside a template literal.
ToStr(v) ==
  CASE v.t = "string" -> v.s
    [] v.t = "number" -> ToString(v.n)
    [] v.t = "boolean" -> IF v.b THEN "true" ELSE "false"
    [] v.t = "null" -> "null"
    [] v.t = "undefined" -> "undefined"
    [] v.t = "NaN" -> "NaN"
    [] v.t = "function" -> v.f
    [] OTHER -> "[object Object]"

\* v.length for the values that have one, 0 standing for `undefined > 0`.
LengthOf(v) ==
  CASE v.t = "array" -> Len(v.l)
    [] v.t = "string" -> Len(v.s)
    [] OTHER -> 0

\* ------------------------------------------------------------ ConfigLoader
\* The service definition files under config/<provider>/: the list the
\* loader keeps of them.
PROVIDER_SERVICES(provider) ==
  CASE provider = "aws" ->
         {"api_gateway", "cloudwatch", "cognito", "dynamodb", "ec2", "fargate",
          "lambda", "rds", "s3", "secrets_manager", "step_functions", "vpc"}
    [] provider = "azure" -> {"vm"}
    [] provider = "gcp" -> {"compute"}
    [] OTHER -> {}

\* defaultConfig of a service definition.
defaultConfig(provider, serviceId) ==
  CASE provider = "aws" /\ serviceId = "ec2" ->
         <<Entry("instance_type", Str("t3.micro")),
           Entry("ami", Str("ami-0abcdef1234567890"))>>
    [] provider = "aws" /\ serviceId = "s3" ->
         <<Entry("versioning", Str("Disabled")),
           Entry("public_access", Str("Blocked"))>>
    [] provider = "aws" /\ serviceId = "rds" ->
         <<Entry("engine", Str("mysql")),
           Entry("instance_class", Str("db.t3.micro")),
           Entry("allocated_storage", Num(20))>>
    [] provider = "aws" /\ serviceId = "vpc" ->
         <<Entry("cidr_block", Str("10.0.0.0/16")),
           Entry("enable_dns_hostnames", Bool(TRUE))>>
    [] provider = "gcp" /\ serviceId = "compute" ->
         <<Entry("machine_type", Str("e2-micro")),
           Entry("zone", Str("us-central1-a"))>>
    [] provider = "gcp" /\ serviceId = "storage" ->
         <<Entry("location", Str("US")),
           Entry("storage_class", Str("STANDARD"))>>
    [] provider = "azure" /\ serviceId = "vm" ->
         <<Entry("vm_size", Str("Standard_B1s")),
           Entry("location", Str("East US"))>>
    [] OTHER -> <<>>

ConfigKey(provider, serviceId) == provider \o "/" \o serviceId

\* ConfigLoader.loadServiceConfig: the cached entry, else the imported file
\* (which is then cached), else null.  The value returned; the cache the
\* call leaves is loadedConfigs below.
loadServiceConfig(cache, provider, serviceId) ==
  IF ConfigKey(provider, serviceId) \in cache
       \/ serviceId \in PROVIDER_SERVICES(provider)
  THEN [found |-> TRUE, defaultConfig |-> defaultConfig(provider, serviceId)]
  ELSE [found |-> FALSE, defaultConfig |-> <<>>]

\* ConfigLoader.getServiceConfig: this.configs.get(key) || null.
getServiceConfig(cache, provider, serviceId) ==
  IF ConfigKey(provider, serviceId) \in cache
  THEN [found |-> TRUE, defaultConfig |-> defaultConfig(provider, serviceId)]
  ELSE [found |-> FALSE, defaultConfig |-> <<>>]

\* The cache loadAllConfigs leaves: every listed service of every available
\* provider loaded.
AVAILABLE_PROVIDERS == {"aws", "azure", "gcp"}

\* The cache a failed load would leave were failures cached too.
loadedConfigs_CacheFailures(cache, provider, serviceIds) ==
  cache \cup {ConfigKey(provider, s) : s \in serviceIds}

loadedConfigs(cache, provider, serviceIds) ==
  cache \cup {ConfigKey(provider, s) : s \in serviceIds \cap PROVIDER_SERVICES(provider)}

\* ------------------------------------------ NetworkInfrastructureGenerator
\* The shared scaffolding of an aws graph: network placement (a VPC and a
\* subnet), one default security group, and its rules.
Resource(type, name, config, dependencies) ==
  [type |-> type, name |-> name, config |-> config, dependencies |-> dependencies]

ScaffoldTags(name) ==
  Obj(<<Entry("Name", Str(name)), Entry("Environment", Str("terraform-generated"))>>)

\* The services that are placed in the network or behind the security group.
NetworkedServices == {"ec2", "rds", "alb"}

\* Scaffolding is needed when some node is placed in the network and the user
\* has not drawn the network (a vpc node) themselves.
needsVPCInfrastructure(nodes) ==
  /\ \E i \in 1..Len(nodes) : nodes[i].data.id \in NetworkedServices
  /\ \A i \in 1..Len(nodes) : nodes[i].data.id # "vpc"

generateVPCInfrastructure ==
  <<Resource("aws_vpc", "main",
             <<Entry("cidr_block", Str("10.0.0.0/16")),
               Entry("enable_dns_hostnames", Bool(TRUE)),
               Entry("tags", ScaffoldTags("main-vpc"))>>, <<>>),
    Resource("aws_subnet", "main",
             <<Entry("vpc_id", Str("aws_vpc.main.id")),
               Entry("cidr_block", Str("10.0.1.0/24")),
               Entry("tags", ScaffoldTags("main-subnet"))>>, <<"aws_vpc.main">>)>>

generateDefaultSecurityGroup ==
  Resource("aws_security_group", "default",
           <<Entry("name", Str("default-sg")),
             Entry("vpc_id", Str("aws_vpc.main.id")),
             Entry("tags", ScaffoldTags("default-sg"))>>, <<"aws_vpc.main">>)

generateSecurityGroupRules ==
  <<Resource("aws_security_group_rule", "default_ingress",
             <<Entry("type", Str("ingress")),
               Entry("from_port", Num(22)),
               Entry("to_port", Num(22)),
               Entry("protocol", Str("tcp")),
               Entry("security_group_id", Str("aws_security_group.default.id"))>>,
             <<"aws_security_group.default">>),
    Resource("aws_security_group_rule", "default_egress",
             <<Entry("type", Str("egress")),
               Entry("from_port", Num(0)),
               Entry("to_port", Num(0)),
               Entry("protocol", Str("-1")),
               Entry("security_group_id", Str("aws_security_group.default.id"))>>,
             <<"aws_security_group.default">>)>>

getSecurityGroupReference == "aws_security_group.default.id"

getSubnetReference(serviceId) == "aws_subnet.main.id"

\* ------------------------------------------------------- TerraformGenerator
\* `${terraformType}.${sanitizeName(name || id)}`: how a node is referred to.
ResourceName(node) == sanitizeName(ToStr(Or(Str(node.data.name), Str(node.data.id))))

ResourceRef(node) == node.data.terraformType \o "." \o ResourceName(node)

\* this.nodes.find((n) => n.id === id): the first node with that id.
FindNode(nodes, id) ==
  IF \E i \in 1..Len(nodes) : nodes[i].id = id
  THEN <<nodes[CHOOSE i \in 1..Len(nodes) :
                 /\ nodes[i].id = id
                 /\ \A j \in 1..(i - 1) : nodes[j].id # id]>>
  ELSE <<>>

RECURSIVE DependenciesFrom(_, _, _, _)
DependenciesFrom(nodes, edges, nodeId, i) ==
  IF i > Len(edges) THEN <<>>
  ELSE LET edge == edges[i]
           sourceNode == FindNode(nodes, edge.source)
           rest == DependenciesFrom(nodes, edges, nodeId, i + 1)
       IN IF edge.target = nodeId /\ sourceNode # <<>>
          THEN <<ResourceRef(sourceNode[1])>> \o rest
          ELSE rest

\* getDependencies were it to list each source once.
RECURSIVE Deduplicated(_, _)
Deduplicated(refs, i) ==
  IF i > Len(refs) THEN <<>>
  ELSE (IF \E j \in 1..(i - 1) : refs[j] = refs[i] THEN <<>> ELSE <<refs[i]>>)
       \o Deduplicated(refs, i + 1)

getDependencies_Deduplicated(nodes, edges, nodeId) ==
  Deduplicated(DependenciesFrom(nodes, edges, nodeId, 1), 1)

getDependencies(nodes, edges, nodeId) == DependenciesFrom(nodes, edges, nodeId, 1)

getDefaultRegion(provider) ==
  CASE provider = "aws" -> "us-east-1"
    [] provider = "gcp" -> "us-central1"
    [] provider = "azure" -> "East US"
    [] OTHER -> "us-east-1"

getEngineVersion(engine) ==
  LET versions == <<Entry("mysql", Str("8.0")), Entry("postgres", Str("13.7")),
                    Entry("mariadb", Str("10.6"))>>
  IN Or(IF engine.t = "string" THEN Get(versions, engine.s) ELSE Undefined, Str("8.0"))

getDBSubnetGroupReference(nodeId) == "aws_db_subnet_group.main.name"

\* The name a node's computed attributes are built from.
SanitizedNodeName(node) == sanitizeName(node.data.name)

\* now is what Date.now() returns during the call.
generateAWSConfig(serviceId, config, node, now) ==
  LET tags == Obj(<<Entry("Name", Or(Get(config, "name"), Str(node.data.name))),
                    Entry("Environment", Str("terraform-generated"))>>)
      resourceConfig == Put(config, "tags", tags)
  IN CASE serviceId = "ec2" ->
            <<Entry("ami", Get(config, "ami")),
              Entry("instance_type", Get(config, "instance_type")),
              Entry("key_name", Or(Get(config, "key_name"), Null)),
              Entry("vpc_security_group_ids",
                    IF Truthy(Get(config, "vpc_security_group_ids"))
                         /\ LengthOf(Get(config, "vpc_security_group_ids")) > 0
                    THEN Get(config, "vpc_security_group_ids")
                    ELSE Arr(<<Str(getSecurityGroupReference)>>)),
              Entry("subnet_id",
                    Or(Get(config, "subnet_id"), Str(getSubnetReference(serviceId)))),
              Entry("associate_public_ip_address",
                    Get(config, "associate_public_ip_address")),
              Entry("tags", tags)>>
       [] serviceId = "s3" ->
            <<Entry("bucket",
                    Or(Get(config, "bucket_name"),
                       Str(SanitizedNodeName(node) \o "-bucket-" \o ToString(now)))),
              Entry("versioning",
                    Obj(<<Entry("enabled",
                                Bool(Get(config, "versioning") = Str("Enabled")))>>)),
              Entry("tags", tags)>>
       [] serviceId = "rds" ->
            <<Entry("identifier",
                    Or(Get(config, "db_name"), Str(SanitizedNodeName(node) \o "-db"))),
              Entry("engine", Get(config, "engine")),
              Entry("engine_version", getEngineVersion(Get(config, "engine"))),
              Entry("instance_class", Get(config, "instance_class")),
              Entry("allocated_storage",
                    Or(parseInt(Get(config, "allocated_storage")), Num(20))),
              Entry("db_name", Or(Get(config, "db_name"), Str("mydb"))),
              Entry("username", Str("admin")),
              Entry("password", Str("var.db_password")),
              Entry("vpc_security_group_ids", Arr(<<Str(getSecurityGroupReference)>>)),
              Entry("db_subnet_group_name", Str(getDBSubnetGroupReference(node.id))),
              Entry("skip_final_snapshot", Bool(TRUE)),
              Entry("tags", tags)>>
       [] serviceId = "lambda" ->
            <<Entry("function_name",
                    Or(Get(config, "function_name"),
                       Str(SanitizedNodeName(node) \o "-function"))),
              Entry("runtime", Get(config, "runtime")),
              Entry("handler", Str("index.handler")),
              Entry("filename", Str("lambda_function.zip")),
              Entry("memory_size", Or(parseInt(Get(config, "memory_size")), Num(128))),
              Entry("timeout", Or(parseInt(Get(config, "timeout")), Num(30))),
              Entry("role", Str("aws_iam_role.lambda_role.arn")),
              Entry("tags", tags)>>
       [] serviceId = "vpc" ->
            <<Entry("cidr_block", Get(config, "cidr_block")),
              Entry("enable_dns_hostnames",
                    Bool(Get(config, "enable_dns_hostnames") # Bool(FALSE))),
              Entry("enable_dns_support",
                    Bool(Get(config, "enable_dns_support") # Bool(FALSE))),
              Entry("tags", tags)>>
       [] serviceId = "alb" ->
            <<Entry("name",
                    Or(Get(config, "name"), Str(SanitizedNodeName(node) \o "-alb"))),
              Entry("load_balancer_type", Get(config, "load_balancer_type")),
              Entry("scheme", Get(config, "scheme")),
              Entry("subnets", Arr(<<Str(getSubnetReference(serviceId))>>)),
              Entry("security_groups", Arr(<<Str(getSecurityGroupReference)>>)),
              Entry("tags", tags)>>
       [] OTHER -> resourceConfig

generateGCPConfig(serviceId, config, node) ==
  CASE serviceId = "compute" ->
         <<Entry("name",
                 Or(Get(config, "name"), Str(SanitizedNodeName(node) \o "-instance"))),
           Entry("machine_type", Or(Get(config, "machine_type"), Str("e2-micro"))),
           Entry("zone", Or(Get(config, "zone"), Str("us-central1-a"))),
           Entry("boot_disk",
                 Obj(<<Entry("initialize_params",
                             Obj(<<Entry("image",
                                         Or(Get(config, "image"),
                                            Str("debian-cloud/debian-11")))>>))>>)),
           Entry("network_interface",
                 Obj(<<Entry("network", Str("default")),
                       Entry("access_config", Obj(<<>>))>>)),
           Entry("labels", Obj(<<Entry("environment", Str("terraform-generated"))>>))>>
    [] serviceId = "storage" ->
         <<Entry("name",
                 Or(Get(config, "name"), Str(SanitizedNodeName(node) \o "-bucket"))),
           Entry("location", Or(Get(config, "location"), Str("US"))),
           Entry("storage_class", Or(Get(config, "storage_class"), Str("STANDARD"))),
           Entry("labels", Obj(<<Entry("environment", Str("terraform-generated"))>>))>>
    [] serviceId = "sql" ->
         <<Entry("name", Or(Get(config, "name"), Str(SanitizedNodeName(node) \o "-db"))),
           Entry("database_version",
                 Or(Get(config, "database_version"), Str("MYSQL_8_0"))),
           Entry("tier", Or(Get(config, "tier"), Str("db-f1-micro"))),
           Entry("settings",
                 Obj(<<Entry("disk_size", Num(10)),
                       Entry("disk_type", Str("PD_SSD"))>>))>>
    [] OTHER -> config

generateAzureConfig(serviceId, config, node) ==
  CASE serviceId = "vm" ->
         <<Entry("name", Or(Get(config, "name"), Str(SanitizedNodeName(node) \o "-vm"))),
           Entry("resource_group_name", Str("azurerm_resource_group.main.name")),
           Entry("location", Or(Get(config, "location"), Str("East US"))),
           Entry("size", Or(Get(config, "vm_size"), Str("Standard_B1s"))),
           Entry("admin_username", Str("adminuser")),
           Entry("disable_password_authentication", Bool(TRUE)),
           Entry("network_interface_ids",
                 Arr(<<Str("azurerm_network_interface.main.id")>>)),
           Entry("os_disk",
                 Obj(<<Entry("caching", Str("ReadWrite")),
                       Entry("storage_account_type",
                             Or(Get(config, "os_disk_type"), Str("Standard_LRS")))>>)),
           Entry("source_image_reference",
                 Obj(<<Entry("publisher", Str("Canonical")),
                       Entry("offer", Str("0001-com-ubuntu-server-focal")),
                       Entry("sku", Str("20_04-lts-gen2")),
                       Entry("version", Str("latest"))>>)),
           Entry("tags", Obj(<<Entry("environment", Str("terraform-generated"))>>))>>
    [] serviceId = "blob" ->
         <<Entry("name",
                 Or(Get(config, "name"), Str(SanitizedNodeName(node) \o "storage"))),
           Entry("resource_group_name", Str("azurerm_resource_group.main.name")),
           Entry("location", Or(Get(config, "location"), Str("East US"))),
           Entry("account_tier", Or(Get(config, "account_tier"), Str("Standard"))),
           Entry("account_replication_type",
                 Or(Get(config, "replication_type"), Str("LRS"))),
           Entry("tags", Obj(<<Entry("environment", Str("terraform-generated"))>>))>>
    [] OTHER -> config

\* The provider's dispatch, on the merged configuration when the service's
\* definition loaded and on the node's own configuration when it did not.
ProviderConfig(provider, serviceId, config, node, now) ==
  CASE provider = "aws" -> generateAWSConfig(serviceId, config, node, now)
    [] provider = "gcp" -> generateGCPConfig(serviceId, config, node)
    [] provider = "azure" -> generateAzureConfig(serviceId, config, node)
    [] OTHER -> config

\* generateResourceConfig were its fallback to skip the provider's dispatch.
generateResourceConfig_PlainFallback(provider, cache, node, now) ==
  LET baseConfig == node.data.config
      serviceId == node.data.id
      serviceConfig == loadServiceConfig(cache, provider, serviceId)
  IN IF serviceConfig.found
     THEN ProviderConfig(provider, serviceId,
                         Spread(serviceConfig.defaultConfig, baseConfig), node, now)
     ELSE baseConfig

generateResourceConfig(provider, cache, node, now) ==
  LET baseConfig == node.data.config
      serviceId == node.data.id
      serviceConfig == loadServiceConfig(cache, provider, serviceId)
  IN IF serviceConfig.found
     THEN ProviderConfig(provider, serviceId,
                         Spread(serviceConfig.defaultConfig, baseConfig), node, now)
     ELSE ProviderConfig(provider, serviceId, baseConfig, node, now)

\* NodeResources were it to push the node's own record only.
NodeResources_NoAccessBlock(provider, cache, nodes, edges, node, now) ==
  <<Resource(node.data.terraformType, ResourceName(node),
             generateResourceConfig(provider, cache, node, now),
             getDependencies(nodes, edges, node.id))>>

\* The records of one node: its own, and for an s3 node the public access
\* block of its bucket.
NodeResources(provider, cache, nodes, edges, node, now) ==
  <<Resource(node.data.terraformType, ResourceName(node),
             generateResourceConfig(provider, cache, node, now),
             getDependencies(nodes, edges, node.id))>>
  \o (IF node.data.id = "s3"
      THEN <<Resource("aws_s3_bucket_public_access_block", ResourceName(node),
                      <<Entry("bucket", Str(ResourceRef(node) \o ".id")),
                        Entry("block_public_acls", Bool(TRUE)),
                        Entry("block_public_policy", Bool(TRUE)),
                        Entry("ignore_public_acls", Bool(TRUE)),
                        Entry("restrict_public_buckets", Bool(TRUE))>>,
                      <<ResourceRef(node)>>)>>
      ELSE <<>>)

\* The loop over the nodes were it to pass over a node whose service
\* definition does not load.
RECURSIVE NodeLoop_SkipsFailedLoads(_, _, _, _, _, _)
NodeLoop_SkipsFailedLoads(provider, cache, nodes, edges, i, now) ==
  IF i > Len(nodes) THEN <<>>
  ELSE (IF loadServiceConfig(cache, provider, nodes[i].data.id).found
        THEN NodeResources(provider, cache, nodes, edges, nodes[i], now)
        ELSE <<>>)
       \o NodeLoop_SkipsFailedLoads(provider, cache, nodes, edges, i + 1, now)

RECURSIVE NodeLoop(_, _, _, _, _, _)
NodeLoop(provider, cache, nodes, edges, i, now) ==
  IF i > Len(nodes) THEN <<>>
  ELSE NodeResources(provider, cache, nodes, edges, nodes[i], now)
       \o NodeLoop(provider, cache, nodes, edges, i + 1, now)

\* InjectedResources were it not to ask whether the scaffolding is needed.
InjectedResources_Always(provider, nodes) ==
  IF provider = "aws"
  THEN generateVPCInfrastructure \o <<generateDefaultSecurityGroup>>
       \o generateSecurityGroupRules
  ELSE <<>>

\* The scaffolding generateResources pushes before its loop over the nodes.
InjectedResources(provider, nodes) ==
  IF provider = "aws" /\ needsVPCInfrastructure(nodes)
  THEN generateVPCInfrastructure \o <<generateDefaultSecurityGroup>>
       \o generateSecurityGroupRules
  ELSE <<>>

\* generateResources were it to push the scaffolding after the node loop.
generateResources_ScaffoldLast(provider, cache, nodes, edges, now) ==
  NodeLoop(provider, cache, nodes, edges, 1, now) \o InjectedResources(provider, nodes)

generateResources(provider, cache, nodes, edges, now) ==
  InjectedResources(provider, nodes) \o NodeLoop(provider, cache, nodes, edges, 1, now)

\* generateVariables were it to declare the password for any database node.
generateVariables_AnyDatabase(provider, nodes) ==
  LET common ==
        <<Entry("environment",
                <<Entry("description", Str("Environment name")),
                  Entry("type", Str("string")),
                  Entry("default", Str("dev"))>>),
          Entry("region",
                <<Entry("description", Str("Cloud provider region")),
                  Entry("type", Str("string")),
                  Entry("default", Str(getDefaultRegion(provider)))>>)>>
      hasDatabase == \E i \in 1..Len(nodes) : nodes[i].data.id \in {"rds", "sql"}
  IN IF hasDatabase
     THEN Append(common,
                 Entry("db_password",
                       <<Entry("description", Str("Database password")),
                         Entry("type", Str("string")),
                         Entry("sensitive", Bool(TRUE))>>))
     ELSE common

\* generateVariables were it to declare the region alone.
generateVariables_RegionOnly(provider, nodes) ==
  <<Entry("region",
          <<Entry("description", Str("Cloud provider region")),
            Entry("type", Str("string")),
            Entry("default", Str(getDefaultRegion(provider)))>>)>>

generateVariables(provider, nodes) ==
  LET common ==
        <<Entry("environment",
                <<Entry("description", Str("Environment name")),
                  Entry("type", Str("string")),
                  Entry("default", Str("dev"))>>),
          Entry("region",
                <<Entry("description", Str("Cloud provider region")),
                  Entry("type", Str("string")),
                  Entry("default", Str(getDefaultRegion(provider)))>>)>>
      hasRDS == \E i \in 1..Len(nodes) : nodes[i].data.id = "rds"
  IN IF provider = "aws" /\ hasRDS
     THEN Append(common,
                 Entry("db_password",
                       <<Entry("description", Str("Database password")),
                         Entry("type", Str("string")),
                         Entry("sensitive", Bool(TRUE))>>))
     ELSE common

\* NodeOutput were its switch to lack the database case.
NodeOutput_NoDatabase(node) ==
  LET resourceName == ResourceName(node)
      resourceType == node.data.terraformType
      out(suffix, description, attr) ==
        <<Entry(resourceName \o suffix,
                <<Entry("description", Str(description)),
                  Entry("value", Str(resourceType \o "." \o resourceName \o attr))>>)>>
  IN CASE node.data.id \in {"ec2", "compute", "vm"} ->
            out("_public_ip", "Public IP of " \o node.data.name, ".public_ip")
       [] node.data.id \in {"s3", "storage", "blob"} ->
            out("_bucket_name", "Name of " \o node.data.name \o " bucket", ".bucket")
       [] node.data.id \in {"alb", "lb"} ->
            out("_dns_name", "DNS name of " \o node.data.name, ".dns_name")
       [] OTHER -> <<>>

\* The output a node contributes: none, or one keyed by its resource name.
NodeOutput(node) ==
  LET resourceName == ResourceName(node)
      resourceType == node.data.terraformType
      out(suffix, description, attr) ==
        <<Entry(resourceName \o suffix,
                <<Entry("description", Str(description)),
                  Entry("value", Str(resourceType \o "." \o resourceName \o attr))>>)>>
  IN CASE node.data.id \in {"ec2", "compute", "vm"} ->
            out("_public_ip", "Public IP of " \o node.data.name, ".public_ip")
       [] node.data.id \in {"s3", "storage", "blob"} ->
            out("_bucket_name", "Name of " \o node.data.name \o " bucket", ".bucket")
       [] node.data.id \in {"rds", "sql"} ->
            out("_endpoint", "Database endpoint for " \o node.data.name, ".endpoint")
       [] node.data.id \in {"alb", "lb"} ->
            out("_dns_name", "DNS name of " \o node.data.name, ".dns_name")
       [] OTHER -> <<>>

\* outputs[key] = ... node by node: a key met again keeps its place.
RECURSIVE OutputsLoop(_, _, _)
OutputsLoop(nodes, i, outputs) ==
  IF i > Len(nodes) THEN outputs
  ELSE OutputsLoop(nodes, i + 1, Spread(outputs, NodeOutput(nodes[i])))

generateOutputs(nodes) == OutputsLoop(nodes, 1, <<>>)

\* What the compile writes to.  An object is held by reference: input says
\* whether the reference is to the node's own config object or to an object
\* made during the compile.
\* { ...ref }, were it to hand on the object itself.
SpreadCopy_Alias(ref) == ref

\* { ...ref }: a new object with the entries of the old.
SpreadCopy(ref) == [input |-> FALSE, o |-> ref.o]

\* node.data.config after generateResourceConfig(node): baseConfig is a copy
\* of it, the merge with the defaults a new object, resourceConfig in
\* generateAWSConfig a copy of what it was passed, and resourceConfig.tags
\* the one assignment made to any of them.
configAfter(provider, cache, node) ==
  LET baseConfig == SpreadCopy([input |-> TRUE, o |-> node.data.config])
      serviceConfig == loadServiceConfig(cache, provider, node.data.id)
      config == IF serviceConfig.found
                THEN [input |-> FALSE,
                      o |-> Spread(serviceConfig.defaultConfig, baseConfig.o)]
                ELSE baseConfig
      resourceConfig == SpreadCopy(config)
      tags == Obj(<<Entry("Name", Or(Get(config.o, "name"), Str(node.data.name))),
                    Entry("Environment", Str("terraform-generated"))>>)
  IN IF provider = "aws" /\ resourceConfig.input
     THEN Put(node.data.config, "tags", tags)
     ELSE node.data.config

\* The node list after generateResources went through it.
nodesAfter(provider, cache, nodes) ==
  [i \in 1..Len(nodes) |->
     [nodes[i] EXCEPT !.data.config = configAfter(provider, cache, nodes[i])]]

\* generate(): the TerraformOutput.
generate(provider, cache, nodes, edges, now) ==
  [provider |-> provider,
   resources |-> generateResources(provider, cache, nodes, edges, now),
   variables |-> generateVariables(provider, nodes),
   outputs |-> generateOutputs(nodes)]

\* ------------------------------------------------------------- the emitter
\* A document is the list of its lines, each standing for the line followed
\* by "\n": every piece of text the generator appends ends in "\n".
Quote == "\""

RECURSIVE Repeat(_, _)
Repeat(s, n) == IF n = 0 THEN "" ELSE s \o Repeat(s, n - 1)

\* The test formatResourceConfig makes of a string value before it leaves
\* the quotes off.
IsReference(value) ==
  \/ StartsWith(value, "var.")
  \/ StartsWith(value, "aws_")
  \/ StartsWith(value, "google_")
  \/ StartsWith(value, "azurerm_")

\* One string attribute, after the indentation and the key.
FormatString(value) ==
  IF IsReference(value) THEN " = " \o value
  ELSE " = " \o Quote \o value \o Quote

\* value.map((v) => (typeof v === "string" ? `"${v}"` : v)).join(", "); join
\* writes null and undefined as nothing.
FormatElement(v) ==
  CASE v.t = "string" -> Quote \o v.s \o Quote
    [] v.t \in {"null", "undefined"} -> ""
    [] OTHER -> ToStr(v)

RECURSIVE Join(_, _, _)
Join(l, i, sep) ==
  IF i > Len(l) THEN ""
  ELSE FormatElement(l[i]) \o (IF i < Len(l) THEN sep ELSE "") \o Join(l, i + 1, sep)

RECURSIVE FormatEntries(_, _, _, _)
FormatEntries(config, i, indent, parentKey) ==
  IF i > Len(config) THEN <<>>
  ELSE LET key == config[i].k
           value == config[i].v
           spaces == Repeat("  ", indent)
           lines ==
             CASE value.t \in {"null", "undefined"} -> <<>>
               [] value.t = "string" -> <<spaces \o key \o FormatString(value.s)>>
               [] value.t \in {"number", "boolean", "NaN"} ->
                    <<spaces \o key \o " = " \o ToStr(value)>>
               [] value.t = "array" ->
                    <<spaces \o key \o " = [" \o Join(value.l, 1, ", ") \o "]">>
               [] value.t = "object" ->
                    <<spaces \o key
                      \o (IF key = "tags" \/ parentKey = "tags" THEN " = {" ELSE " {")>>
                    \o FormatEntries(value.o, 1, indent + 1, key)
                    \o <<spaces \o "}">>
               [] OTHER -> <<>>
       IN lines \o FormatEntries(config, i + 1, indent, parentKey)

\* parentKey "" stands for the absent third argument.
formatResourceConfig(config, indent) == FormatEntries(config, 1, indent, "")

generateProviderBlock(provider) ==
  CASE provider = "aws" ->
         <<"terraform {", "  required_providers {", "    aws = {",
           "      source  = \"hashicorp/aws\"", "      version = \"~> 5.0\"",
           "    }", "  }", "}", "",
           "provider \"aws\" {", "  region = var.region", "}">>
    [] provider = "gcp" ->
         <<"terraform {", "  required_providers {", "    google = {",
           "      source  = \"hashicorp/google\"", "      version = \"~> 4.0\"",
           "    }", "  }", "}", "",
           "provider \"google\" {", "  project = var.project_id",
           "  region  = var.region", "}">>
    [] provider = "azure" ->
         <<"terraform {", "  required_providers {", "    azurerm = {",
           "      source  = \"hashicorp/azurerm\"", "      version = \"~> 3.0\"",
           "    }", "  }", "}", "",
           "provider \"azurerm\" {", "  features {}", "}", "",
           "resource \"azurerm_resource_group\" \"main\" {",
           "  name     = \"rg-${var.environment}\"", "  location = var.region", "}">>
    [] OTHER -> <<>>

\* One `key = value` line of a variable block.
VariableLine(key, value) ==
  IF key = "type" /\ value = Str("string") THEN "  " \o key \o " = " \o value.s
  ELSE IF value.t = "string"
       THEN "  " \o key \o " = " \o Quote \o value.s \o Quote
       ELSE "  " \o key \o " = " \o ToStr(value)

VariableLines(config) == [i \in 1..Len(config) |-> VariableLine(config[i].k, config[i].v)]

RECURSIVE VariableBlocks(_, _)
VariableBlocks(variables, i) ==
  IF i > Len(variables) THEN <<>>
  ELSE <<"variable " \o Quote \o variables[i].k \o Quote \o " {">>
       \o VariableLines(variables[i].v) \o <<"}", "">>
       \o VariableBlocks(variables, i + 1)

RECURSIVE JoinStrings(_, _, _)
JoinStrings(l, i, sep) ==
  IF i > Len(l) THEN ""
  ELSE l[i] \o (IF i < Len(l) THEN sep ELSE "") \o JoinStrings(l, i + 1, sep)

ResourceBlock(resource) ==
  <<"resource " \o Quote \o resource.type \o Quote \o " " \o Quote \o resource.name
    \o Quote \o " {">>
  \o formatResourceConfig(resource.config, 1)
  \o (IF Len(resource.dependencies) > 0
      THEN <<"  depends_on = [" \o JoinStrings(resource.dependencies, 1, ", ") \o "]">>
      ELSE <<>>)
  \o <<"}", "">>

RECURSIVE ResourceBlocks(_, _)
ResourceBlocks(resources, i) ==
  IF i > Len(resources) THEN <<>>
  ELSE ResourceBlock(resources[i]) \o ResourceBlocks(resources, i + 1)

\* generateTerraformCode(): the text made of a TerraformOutput.  The "\n"
\* appended after the provider block is a line of its own, and the whole of
\* what an unknown provider's empty block leaves.
TerraformCode(output) ==
  generateProviderBlock(output.provider) \o <<"">>
  \o (IF Len(output.variables) > 0
      THEN <<"# Variables">> \o VariableBlocks(output.variables, 1) ELSE <<>>)
  \o <<"# Resources">>
  \o ResourceBlocks(output.resources, 1)

\* generateOutputsFile(): the outputs document made of a TerraformOutput.
OutputLine(key, value) ==
  IF value.t = "string" THEN "  " \o key \o " = " \o Quote \o value.s \o Quote
  ELSE "  " \o key \o " = " \o ToStr(value)

OutputLines(config) == [i \in 1..Len(config) |-> OutputLine(config[i].k, config[i].v)]

RECURSIVE OutputBlocks(_, _)
OutputBlocks(outputs, i) ==
  IF i > Len(outputs) THEN <<>>
  ELSE <<"output " \o Quote \o outputs[i].k \o Quote \o " {">>
       \o OutputLines(outputs[i].v) \o <<"}", "">>
       \o OutputBlocks(outputs, i + 1)

OutputsCode(output) ==
  IF Len(output.outputs) > 0
  THEN <<"# Outputs">> \o OutputBlocks(output.outputs, 1) ELSE <<>>

\* ------------------------------------------------------------- the inputs
Providers == {"aws", "gcp", "azure", "oci"}

ServiceNode(provider, id, name, terraformType) ==
  [id |-> id, name |-> name, terraformType |-> terraformType,
   config |-> defaultConfig(provider, id)]

\* What a node's data can be.  A node dropped from the sidebar carries the
\* service definition (its id, name, terraformType) and the definition's
\* defaultConfig as its config; a node added through the infrastructure
\* manager carries the component's id as data.id, the component's service as
\* terraformType, and the component's own config.
NodeData(provider) ==
  CASE provider = "aws" ->
         {ServiceNode("aws", "ec2", "EC2", "aws_instance"),
          ServiceNode("aws", "s3", "S3", "aws_s3_bucket"),
          ServiceNode("aws", "rds", "RDS", "aws_db_instance"),
          ServiceNode("aws", "vpc", "VPC", "aws_vpc"),
          [id |-> "sqs-queue", name |-> "Job Queue", terraformType |-> "sqs",
           config |-> <<Entry("delay_seconds", Num(5)),
                        Entry("description", Str("the \"jobs\" queue")),
                        Entry("policy", Str("data.aws_iam_policy_document.q.json")),
                        Entry("on_message", Fn("() => {}"))>>]}
    [] provider = "gcp" ->
         {ServiceNode("gcp", "compute", "Compute Engine", "google_compute_instance"),
          ServiceNode("gcp", "storage", "Cloud Storage", "google_storage_bucket"),
          [id |-> "sql", name |-> "Cloud SQL",
           terraformType |-> "google_sql_database_instance", config |-> <<>>],
          [id |-> "pubsub-topic", name |-> "Events", terraformType |-> "pubsub",
           config |-> <<Entry("retention", Str("module.defaults.retention"))>>]}
    [] provider = "azure" ->
         {ServiceNode("azure", "vm", "Virtual Machines", "azurerm_linux_virtual_machine"),
          [id |-> "blob", name |-> "Blob Storage",
           terraformType |-> "azurerm_storage_account", config |-> <<>>],
          [id |-> "lb", name |-> "Load Balancer",
           terraformType |-> "azurerm_lb", config |-> <<Entry("sku", Str("Standard"))>>]}
    [] OTHER ->
         {[id |-> "instance", name |-> "Instance", terraformType |-> "oci_core_instance",
           config |-> <<Entry("shape", Str("VM.Standard2.1"))>>]}

\* getId(): `node_${nodeId++}`, the counter starting at 0.
NodeId(n) == "node_" \o ToString(n)

NodeLists(provider) ==
  UNION {{[i \in 1..n |-> [id |-> NodeId(i - 1), data |-> f[i]]] :
            f \in [1..n -> NodeData(provider)]} : n \in 0..MaxNodes}

Edge(source, target) == [source |-> NodeId(source), target |-> NodeId(target)]

\* The edges drawn, each into the first node: from the second node, and from
\* a node that is no longer there (its id was handed out, the node deleted).
EdgeEnds == {Edge(1, 0), Edge(MaxNodes, 0)}

EdgeLists == UNION {[1..n -> EdgeEnds] : n \in 0..MaxEdges}

\* --------------------------------------------------------------- the state
VARIABLES
  provider,   \* TerraformGenerator.provider; the canvas's provider prop
  nodes,      \* TerraformGenerator.nodes; the canvas's nodes state
  edges,      \* TerraformGenerator.edges; the canvas's edges state
  now,        \* what Date.now() returns
  configs,    \* ConfigLoader.configs: the keys it holds
  result,     \* what the last generateTerraformCode() made
  previous,   \* what the call before it made
  pc,         \* the node a generate() in progress is at; 0 when none is
  building,   \* the resources array of the generate() in progress
  returned,   \* what the last call of the ConfigLoader returned
  \* InfrastructureCanvas
  nodeId,          \* the counter getId() hands ids out from
  selectedNodes,   \* ids of the nodes selected
  selectedEdges,   \* ids of the edges selected
  selectedNode,    \* the node the configuration panel is open on
  regenerations,   \* generateTerraformFiles() calls in flight
  timers,          \* setTimeout callbacks of handleConfigUpdate not yet run
  terraformFiles,  \* the files shown, held as the graph they were made from
  \* infrastructure-manager and AgentChat
  globalAddNodesToCanvas,  \* whether a canvas has registered its functions
  added,                   \* the nodes handed to the registered function
  messages,                \* the chat's messages that carry a plan
  adding,                  \* addInfrastructureToCanvas calls at their await
  \* InfrastructureCanvas: deployment
  isDeploying,
  deploymentStatus,
  deploymentError,
  deployment,      \* the deployment as the api-service knows it
  pollInterval,    \* whether startDeploymentPolling's interval is running
  cutoff,          \* whether its 10-minute timeout is still to fire
  elapsed,         \* polls made since the interval was started
  \* the plan, apply and output routes
  request,         \* the request being answered
  terraform,       \* the child process spawned for it
  response         \* the response sent

generatorVars == <<provider, nodes, edges, now, configs, result, previous, pc,
                   building, returned>>

canvasVars == <<nodeId, selectedNodes, selectedEdges, selectedNode, regenerations,
                timers, terraformFiles>>

agentVars == <<globalAddNodesToCanvas, added, messages, adding>>

deployVars == <<isDeploying, deploymentStatus, deploymentError, deployment,
                pollInterval, cutoff, elapsed>>

routeVars == <<request, terraform, response>>

vars == <<generatorVars, canvasVars, agentVars, deployVars, routeVars>>

\* What is not the generator's, while only the generator runs.
uiVars == <<canvasVars, agentVars, deployVars, routeVars>>

\* The canvas before it is mounted.
NoCanvas ==
  /\ nodeId = 0
  /\ selectedNodes = {}
  /\ selectedEdges = {}
  /\ selectedNode = Null
  /\ regenerations = {}
  /\ timers = {}
  /\ terraformFiles = Null

\* No canvas registered, no plan proposed.
NoAgent ==
  /\ globalAddNodesToCanvas = FALSE
  /\ added = <<>>
  /\ messages = <<>>
  /\ adding = {}

\* useState(false), useState(null), useState(null): nothing deployed.
NoDeployment ==
  /\ isDeploying = FALSE
  /\ deploymentStatus = Null
  /\ deploymentError = Null
  /\ deployment = Null
  /\ pollInterval = FALSE
  /\ cutoff = FALSE
  /\ elapsed = 0

\* No request at the routes.
NoRequest ==
  /\ request = Null
  /\ terraform = Null
  /\ response = Null

NoResult == [done |-> FALSE]

NoCall == [op |-> "none"]

Init ==
  /\ provider \in Providers
  /\ nodes \in NodeLists(provider)
  /\ edges \in EdgeLists
  /\ now = 0
  /\ configs = {}
  /\ result = NoResult
  /\ previous = NoResult
  /\ pc = 0
  /\ building = <<>>
  /\ returned = NoCall
  /\ NoCanvas /\ NoAgent /\ NoDeployment /\ NoRequest

\* Time passes.
Tick ==
  /\ now < MaxClock
  /\ now' = now + 1
  /\ UNCHANGED <<provider, nodes, edges, configs, result, previous, pc, building,
                 returned, uiVars>>

\* generateTerraformCode(): generate(), which loads the service definition
\* of every node, then the text.
GenerateTerraformCode ==
  /\ previous = NoResult
  /\ LET output == generate(provider, configs, nodes, edges, now)
     IN result' = [done |-> TRUE, output |-> output, code |-> TerraformCode(output),
                   outputsCode |-> OutputsCode(output)]
  /\ previous' = result
  /\ configs' = loadedConfigs(configs, provider,
                              {nodes[i].data.id : i \in 1..Len(nodes)})
  /\ nodes' = nodesAfter(provider, configs, nodes)
  /\ UNCHANGED <<provider, edges, now, pc, building, returned, uiVars>>

Next == Tick \/ GenerateTerraformCode

Spec == Init /\ [][Next]_vars

\* ------------------------------------------------ the compile, await by await
\* generate() is an async function: it awaits generateResources(), which
\* awaits generateResourceConfig(node) for each node in turn, which awaits
\* ConfigLoader.loadServiceConfig, which awaits the import of the service
\* definition file.  Each await hands control back; what else is running
\* (a call of the ConfigLoader from the canvas or the infrastructure
\* manager) acts before the compile goes on.  A load is one step, taken
\* when its import settles: the lines after the await (set, return) run
\* without a break, and the file imported is the same whenever it is read.

\* The services the ConfigLoader is asked for beside the compile: for each
\* provider one that has a definition file and one that has none.
LoaderServices(p) ==
  CASE p = "aws" -> {"ec2", "sqs-queue"}
    [] p = "gcp" -> {"compute", "pubsub-topic"}
    [] p = "azure" -> {"vm", "blob"}
    [] OTHER -> {"instance"}

InitAsync ==
  /\ provider \in Providers
  /\ nodes \in {l \in NodeLists(provider) :
                  \A i \in 1..Len(l) : l[i].data.id \in LoaderServices(provider)}
  /\ edges = <<>>
  /\ now = 0
  /\ configs = {}
  /\ result = NoResult
  /\ previous = NoResult
  /\ pc = 0
  /\ building = <<>>
  /\ returned = NoCall
  /\ NoCanvas /\ NoAgent /\ NoDeployment /\ NoRequest

\* generate() called: generateResources() pushes the scaffolding and
\* reaches its first await.
StartCompile ==
  /\ pc = 0
  /\ ~result.done
  /\ pc' = 1
  /\ building' = InjectedResources(provider, nodes)
  /\ UNCHANGED <<provider, nodes, edges, now, configs, result, previous, returned, uiVars>>

\* The load of the node's service definition settles; the node's records
\* are pushed and the loop goes to the next node's await.
CompileNode ==
  /\ pc \in 1..Len(nodes)
  /\ building' = building
                   \o NodeResources(provider, configs, nodes, edges, nodes[pc], now)
  /\ configs' = loadedConfigs(configs, provider, {nodes[pc].data.id})
  /\ pc' = pc + 1
  /\ nodes' = [nodes EXCEPT ![pc].data.config = configAfter(provider, configs, nodes[pc])]
  /\ UNCHANGED <<provider, edges, now, result, previous, returned, uiVars>>

\* The loop is over: variables, outputs and the text.
FinishCompile ==
  /\ pc = Len(nodes) + 1
  /\ LET output == [provider |-> provider,
                    resources |-> building,
                    variables |-> generateVariables(provider, nodes),
                    outputs |-> generateOutputs(nodes)]
     IN result' = [done |-> TRUE, output |-> output, code |-> TerraformCode(output),
                   outputsCode |-> OutputsCode(output)]
  /\ pc' = 0
  /\ building' = <<>>
  /\ UNCHANGED <<provider, nodes, edges, now, configs, previous, returned, uiVars>>

\* ConfigLoader.loadServiceConfig called for itself.
LoadServiceConfig ==
  \E s \in LoaderServices(provider) :
    /\ returned' = [op |-> "load", provider |-> provider, serviceId |-> s,
                    value |-> loadServiceConfig(configs, provider, s)]
    /\ configs' = loadedConfigs(configs, provider, {s})
    /\ UNCHANGED <<provider, nodes, edges, now, result, previous, pc, building, uiVars>>

\* ConfigLoader.getServiceConfig.
GetServiceConfig ==
  \E s \in LoaderServices(provider) :
    /\ returned' = [op |-> "get", provider |-> provider, serviceId |-> s,
                    value |-> getServiceConfig(configs, provider, s)]
    /\ UNCHANGED <<provider, nodes, edges, now, configs, result, previous, pc,
                   building, uiVars>>

\* ConfigLoader.loadAllConfigs: loadServiceConfig for every listed service
\* of every available provider.
LoadAllConfigs ==
  /\ configs' = configs \cup UNION {loadedConfigs({}, p, PROVIDER_SERVICES(p)) :
                                        p \in AVAILABLE_PROVIDERS}
  /\ returned' = [op |-> "loadAll"]
  /\ UNCHANGED <<provider, nodes, edges, now, result, previous, pc, building, uiVars>>

\* ConfigLoader.clearCache.
ClearCache ==
  /\ configs' = {}
  /\ UNCHANGED <<provider, nodes, edges, now, result, previous, pc, building,
                 returned, uiVars>>

NextAsync ==
  \/ StartCompile
  \/ CompileNode
  \/ FinishCompile
  \/ LoadServiceConfig
  \/ GetServiceConfig
  \/ LoadAllConfigs
  \/ ClearCache

SpecAsync == InitAsync /\ [][NextAsync]_vars

\* ------------------------------------------------------------------ claims
Compiled == result.done

\* The place in the resources list of node i's own record: counted from the
\* end, each later node taking one record and each s3 node one more.
RECURSIVE RecordsFrom(_)
RecordsFrom(i) ==
  IF i > Len(nodes) THEN 0
  ELSE 1 + (IF nodes[i].data.id = "s3" THEN 1 ELSE 0) + RecordsFrom(i + 1)

MainRecordIndex(i) == Len(result.output.resources) - RecordsFrom(i) + 1

MainRecord(i) == result.output.resources[MainRecordIndex(i)]

\* C1: two compiles of the same provider, nodes and edges give the same
\* resource records, variables, outputs and text, whatever the time of each.
C1_Determinism == (result.done /\ previous.done) => result = previous

\* C2: what the claim gives as node t's dependency list: the edges in input
\* order, those kept whose target is t and whose source is a node, each
\* mapped to the source's type.name.
NodeIds == {nodes[i].id : i \in 1..Len(nodes)}

NodeWithId(id) == nodes[CHOOSE i \in 1..Len(nodes) : nodes[i].id = id]

ExpectedDependencies(t) ==
  LET kept == SelectSeq(edges, LAMBDA e : e.target = t /\ e.source \in NodeIds)
  IN [k \in 1..Len(kept) |->
        LET source == NodeWithId(kept[k].source)
        IN source.data.terraformType \o "."
           \o sanitizeName(IF source.data.name # "" THEN source.data.name
                           ELSE source.data.id)]

DanglingEdgeIgnored ==
  /\ Compiled
  /\ Len(edges) = 2
  /\ edges[1].source \notin NodeIds
  /\ edges[2].source \in NodeIds
  /\ Len(MainRecord(1).dependencies) = 1

DeclaredVariables == Keys(result.output.variables)

ServiceIds == {nodes[i].data.id : i \in 1..Len(nodes)}

\* C3 as stated: db_password is declared exactly when a database node (rds
\* or sql) is in the graph, for every provider.
C3_AsStated ==
  Compiled => ("db_password" \in DeclaredVariables <=> ServiceIds \cap {"rds", "sql"} # {})

\* C3 amended: db_password is declared exactly when the provider is aws and
\* an rds node is in the graph.
C3_DbPassword ==
  Compiled => ("db_password" \in DeclaredVariables <=> (provider = "aws" /\ "rds" \in ServiceIds))

\* C3 witness: an aws graph with an rds node, compiled, db_password declared.
C3_Witness ==
  /\ Compiled
  /\ provider = "aws"
  /\ "rds" \in ServiceIds
  /\ "db_password" \in DeclaredVariables

\* The variables a text refers to: the names that follow "var." where it
\* starts a word.
IdentChars == AlnumSet \cup UpperSet \cup {"_", "-"}

RECURSIVE NameEnd(_, _)
NameEnd(line, j) ==
  IF j <= Len(line) /\ Char(line, j) \in IdentChars THEN NameEnd(line, j + 1) ELSE j

VarRefsInLine(line) ==
  {SubSeq(line, i + 4, NameEnd(line, i + 4) - 1) :
     i \in {i \in 1..Len(line) :
              /\ i + 3 <= Len(line)
              /\ SubSeq(line, i, i + 3) = "var."
              /\ (i = 1 \/ Char(line, i - 1) \notin IdentChars)}}

ReferencedVariables(code) == UNION {VarRefsInLine(code[k]) : k \in 1..Len(code)}

\* C4: the variables declared are the variables the emitted text refers to.
C4_DeclaredEqualsReferenced ==
  Compiled => DeclaredVariables = ReferencedVariables(result.code)

\* The service ids each provider's dispatch has a case for.
DispatchCases(p) ==
  CASE p = "aws" -> {"ec2", "s3", "rds", "lambda", "vpc", "alb"}
    [] p = "gcp" -> {"compute", "storage", "sql"}
    [] p = "azure" -> {"vm", "blob"}
    [] OTHER -> {}

\* The nodes C5 is about: no service definition file and no dispatch case.
Unregistered(i) ==
  /\ nodes[i].data.id \notin PROVIDER_SERVICES(provider)
  /\ nodes[i].data.id \notin DispatchCases(provider)

SameResource(i, j) ==
  /\ nodes[i].data.terraformType = nodes[j].data.terraformType
  /\ ResourceName(nodes[i]) = ResourceName(nodes[j])

\* One record per node of that type and name, no more.
OneRecordEach(i) ==
  Cardinality({r \in 1..Len(result.output.resources) :
                 /\ result.output.resources[r].type = nodes[i].data.terraformType
                 /\ result.output.resources[r].name = ResourceName(nodes[i])})
    = Cardinality({j \in 1..Len(nodes) : SameResource(i, j)})

CommonTags(node) ==
  Obj(<<Entry("Name", IF Truthy(Get(node.data.config, "name"))
                      THEN Get(node.data.config, "name") ELSE Str(node.data.name)),
        Entry("Environment", Str("terraform-generated"))>>)

RecordsOfType(type) ==
  {r \in 1..Len(result.output.resources) : result.output.resources[r].type = type}

ScaffoldBlock ==
  generateVPCInfrastructure \o <<generateDefaultSecurityGroup>> \o generateSecurityGroupRules

InjectedCount == Len(result.output.resources) - RecordsFrom(1)

\* C7: the records ahead of the node records are the scaffold block, once,
\* or nothing; nothing for a provider other than aws; and every record after
\* them is a node's.
C7_ScaffoldOnceAndFirst ==
  Compiled =>
    /\ InjectedCount \in {0, Len(ScaffoldBlock)}
    /\ SubSeq(result.output.resources, 1, InjectedCount) \in {<<>>, ScaffoldBlock}
    /\ provider # "aws" => InjectedCount = 0
    /\ \A i \in 1..Len(nodes) :
         /\ MainRecordIndex(i) > InjectedCount
         /\ MainRecord(i).type = nodes[i].data.terraformType
         /\ MainRecord(i).name = ResourceName(nodes[i])
    /\ \A r \in (InjectedCount + 1)..Len(result.output.resources) :
         \A k \in 1..Len(ScaffoldBlock) : result.output.resources[r] # ScaffoldBlock[k]

\* C7 witness: two nodes that both need the scaffolding, compiled, the block
\* there once.
C7_Witness ==
  /\ Compiled
  /\ Cardinality({i \in 1..Len(nodes) : nodes[i].data.id \in NetworkedServices}) >= 2
  /\ InjectedCount = Len(ScaffoldBlock)

\* The scenario of C8: an s3 node and an ec2 node on aws, one edge from the
\* s3 node to the ec2 node.
StorageComputeScenario ==
  /\ provider = "aws"
  /\ Len(nodes) = 2
  /\ nodes[1].data.id = "ec2"
  /\ nodes[2].data.id = "s3"
  /\ edges = <<[source |-> nodes[2].id, target |-> nodes[1].id]>>

InjectedRefs ==
  {result.output.resources[r].type \o "." \o result.output.resources[r].name :
     r \in 1..InjectedCount}

Elements(seq) == {seq[k] : k \in 1..Len(seq)}

EmptyGraph == provider = "aws" /\ nodes = <<>> /\ edges = <<>>

ResourceLines(code) ==
  {k \in 1..Len(code) : StartsWith(code[k], "resource ")}

ClaimedReference(value) ==
  \E p \in {"var.", "aws_", "google_", "azurerm_", "data.", "module."} :
    StartsWith(value, p)

RECURSIVE EscapeQuotes(_, _)
EscapeQuotes(s, i) ==
  IF i > Len(s) THEN ""
  ELSE (IF Char(s, i) = Quote THEN "\\" \o Quote ELSE Char(s, i)) \o EscapeQuotes(s, i + 1)

ClaimedLine(key, value) ==
  IF ClaimedReference(value) THEN "  " \o key \o " = " \o value
  ELSE "  " \o key \o " = " \o Quote \o EscapeQuotes(value, 1) \o Quote

\* C10: every string attribute of every emitted resource is written bare
\* when it is a reference, and otherwise quoted with its quotes escaped.
C10_StringFormatting ==
  Compiled =>
    \A r \in 1..Len(result.output.resources) :
      LET config == result.output.resources[r].config
      IN \A k \in 1..Len(config) :
           config[k].v.t = "string" =>
             ClaimedLine(config[k].k, config[k].v.s) \in Elements(result.code)

\* An element of a list as C11 has it: a reference bare, any other string
\* quoted, anything else as the formatter writes it.
ClaimedElement(v) ==
  IF v.t = "string"
  THEN (IF ClaimedReference(v.s) THEN v.s ELSE Quote \o v.s \o Quote)
  ELSE FormatElement(v)

RECURSIVE ClaimedJoin(_, _)
ClaimedJoin(l, i) ==
  IF i > Len(l) THEN ""
  ELSE ClaimedElement(l[i]) \o (IF i < Len(l) THEN ", " ELSE "") \o ClaimedJoin(l, i + 1)

\* C11: every list attribute of every emitted resource is written as a
\* bracketed, comma-separated sequence whose reference elements are bare and
\* whose literal strings alone are quoted.
C11_ListFormatting ==
  Compiled =>
    \A r \in 1..Len(result.output.resources) :
      LET config == result.output.resources[r].config
      IN \A k \in 1..Len(config) :
           config[k].v.t = "array" =>
             ("  " \o config[k].k \o " = [" \o ClaimedJoin(config[k].v.l, 1) \o "]")
               \in Elements(result.code)

\* The keys formatResourceConfig names as blocks, and the keys C12 names as
\* map attributes.
BlockStyleKeys == {"versioning", "lifecycle", "provisioner"}

MapStyleKeys == {"tags", "labels"}

\* The opening lines C12 asks for, of the nested maps of config and of the
\* maps inside them: `key {` for a block-style key, `key = {` for a map key,
\* nothing asked of a key of neither set.
RECURSIVE ClaimedOpenings(_, _, _)
ClaimedOpenings(config, i, indent) ==
  IF i > Len(config) THEN {}
  ELSE LET key == config[i].k
           value == config[i].v
           spaces == Repeat("  ", indent)
           own == IF value.t # "object" THEN {}
                  ELSE (CASE key \in BlockStyleKeys -> {spaces \o key \o " {"}
                          [] key \in MapStyleKeys -> {spaces \o key \o " = {"}
                          [] OTHER -> {})
                       \cup ClaimedOpenings(value.o, 1, indent + 1)
       IN own \cup ClaimedOpenings(config, i + 1, indent)

\* C12: a nested map is written as a block exactly when its key is a
\* block-style name; tags, labels and the like are written `key = {`, at
\* every depth.
C12_BlockVersusAttribute ==
  Compiled =>
    \A r \in 1..Len(result.output.resources) :
      ClaimedOpenings(result.output.resources[r].config, 1, 1)
        \subseteq Elements(result.code)

\* The lines of code that write the attribute key of a resource.
AttributeLines(code, key) ==
  {k \in 1..Len(code) : StartsWith(code[k], "  " \o key \o " = ")}

\* The comment lines of code other than the two section headers.
WarningLines(code) ==
  {k \in 1..Len(code) :
     StartsWith(code[k], "#") /\ code[k] \notin {"# Variables", "# Resources"}}

\* C13: an attribute whose value is a function is still written, as its
\* stringified value, with a warning in the document, and the rest of the
\* resource is written too.
C13_Unrenderable ==
  Compiled =>
    \A r \in 1..Len(result.output.resources) :
      LET config == result.output.resources[r].config
      IN \A k \in 1..Len(config) :
           config[k].v.t = "function" =>
             /\ ("  " \o config[k].k \o " = " \o ToStr(config[k].v))
                  \in Elements(result.code)
             /\ WarningLines(result.code) # {}
             /\ ("resource " \o Quote \o result.output.resources[r].type \o Quote
                   \o " " \o Quote \o result.output.resources[r].name \o Quote \o " {")
                  \in Elements(result.code)

\* The providers the pipeline has dispatch entries for.
SupportedProviders == {"aws", "gcp", "azure"}

\* C14: a compile for a provider with no dispatch entry fails; it returns no
\* result with resources, variables and text.
C14_UnsupportedProvider ==
  Compiled => provider \in SupportedProviders

\* A pair the loader can load: one with a service definition file.
Loadable(p, s) == s \in PROVIDER_SERVICES(p)

CalledPair == returned.op \in {"load", "get"}

\* What a found entry is, and the not-found signal.
EntryOf(p, s) == [found |-> TRUE, defaultConfig |-> defaultConfig(p, s)]

NotFound == [found |-> FALSE, defaultConfig |-> <<>>]

\* C15: a pair that cannot be loaded is answered with null by
\* loadServiceConfig and by getServiceConfig and never enters the cache; a
\* pair that loads is answered with its entry and stays cached, every later
\* load and get answering with the cached entry, until clearCache empties
\* the cache.
C15_LookupFailureIsAValue ==
  /\ [](\A p \in Providers : \A s \in LoaderServices(p) :
          ~Loadable(p, s) => ConfigKey(p, s) \notin configs)
  /\ [](CalledPair /\ ~Loadable(returned.provider, returned.serviceId)
          => returned.value = NotFound)
  /\ [](returned.op = "load" /\ Loadable(returned.provider, returned.serviceId)
          => returned.value = EntryOf(returned.provider, returned.serviceId))
  /\ [][(returned' # returned /\ returned'.op = "load"
           /\ Loadable(returned'.provider, returned'.serviceId))
          => ConfigKey(returned'.provider, returned'.serviceId) \in configs']_vars
  /\ [][(returned' # returned /\ returned'.op = "get")
          => returned'.value =
               (IF ConfigKey(returned'.provider, returned'.serviceId) \in configs
                THEN EntryOf(returned'.provider, returned'.serviceId)
                ELSE NotFound)]_vars
  /\ [][(\E k \in configs : k \notin configs') => configs' = {}]_vars

\* C15 witness: getServiceConfig has answered null for a pair with no
\* definition file while the cache holds the entry of a pair that loaded.
C15_Witness ==
  /\ returned.op = "get"
  /\ ~Loadable(returned.provider, returned.serviceId)
  /\ returned.value = NotFound
  /\ \E s \in LoaderServices(provider) :
       Loadable(provider, s) /\ ConfigKey(provider, s) \in configs

\* A generate() has started and has not returned.
Compiling == pc # 0

\* C16: a compile is one step: once it has started, whatever happens next
\* is the compile itself going on to its result, and no step of it loads a
\* service definition.
C16_NoSuspension ==
  [][/\ Compiling => pc' # pc
     /\ pc' # pc => configs' = configs]_vars

\* C17: no two records of one compile share their type and name.
C17_UniqueNames ==
  Compiled =>
    \A r1, r2 \in 1..Len(result.output.resources) :
      (/\ result.output.resources[r1].type = result.output.resources[r2].type
       /\ result.output.resources[r1].name = result.output.resources[r2].name)
        => r1 = r2

\* The category of a service, and what C18 gives a category: the suffix of
\* the output's name and the attribute it reads.
Category(serviceId) ==
  CASE serviceId \in {"ec2", "compute", "vm"} -> "compute"
    [] serviceId \in {"s3", "storage", "blob"} -> "storage"
    [] serviceId \in {"rds", "sql"} -> "database"
    [] serviceId \in {"alb", "lb"} -> "load balancer"
    [] OTHER -> "none"

CategorySuffix(category) ==
  CASE category = "compute" -> "_public_ip"
    [] category = "storage" -> "_bucket_name"
    [] category = "database" -> "_endpoint"
    [] category = "load balancer" -> "_dns_name"

CategoryAttribute(category) ==
  CASE category = "compute" -> ".public_ip"
    [] category = "storage" -> ".bucket"
    [] category = "database" -> ".endpoint"
    [] category = "load balancer" -> ".dns_name"

Categorised == {i \in 1..Len(nodes) : Category(nodes[i].data.id) # "none"}

OutputKey(i) == ResourceName(nodes[i]) \o CategorySuffix(Category(nodes[i].data.id))

\* C18: the outputs are those of the nodes that have a category, one each,
\* named and valued by the category; a node of no category, an injected
\* record and an s3 node's access block give none.
C18_OutputTable ==
  Compiled =>
    LET outputs == result.output.outputs
    IN /\ Keys(outputs) = {OutputKey(i) : i \in Categorised}
       /\ Len(outputs) = Cardinality({OutputKey(i) : i \in Categorised})
       /\ \A i \in Categorised :
            Get(Get(outputs, OutputKey(i)), "value")
              = Str(ResourceRef(nodes[i]) \o CategoryAttribute(Category(nodes[i].data.id)))

\* C18 witness: an aws compile with scaffolding injected, a database node
\* and a node of no category: one output.
C18_Witness ==
  /\ Compiled
  /\ InjectedCount > 0
  /\ \E i, j \in 1..Len(nodes) :
       Category(nodes[i].data.id) = "database" /\ Category(nodes[j].data.id) = "none"
  /\ Len(result.output.outputs) = 1

\* C19: no step of the compiler changes the node list, a node's data or
\* config, or the edge list.
C19_InputUnchanged ==
  [][nodes' = nodes /\ edges' = edges]_vars

\* C19 witness: an aws compile has set tags on the record of a node whose
\* own config has none, with an edge read on the way.
C19_Witness ==
  /\ Compiled
  /\ provider = "aws"
  /\ edges # <<>>
  /\ \E i \in 1..Len(nodes) :
       /\ Has(MainRecord(i).config, "tags")
       /\ ~Has(nodes[i].data.config, "tags")
       /\ Unregistered(i)

S3Nodes == {i \in 1..Len(nodes) : nodes[i].data.id = "s3"}

\* C20: behind the scaffolding the resources list holds, node by node in
\* node order, the node's own record, and right after it the bucket's
\* public access block, depending on the bucket, exactly when the node is an
\* s3 node; so the node records number the nodes plus the s3 nodes.
C20_RecordCount ==
  Compiled =>
    LET rs == result.output.resources
        ahead == Len(rs) - (Len(nodes) + Cardinality(S3Nodes))
    IN /\ ahead \in {0, Len(ScaffoldBlock)}
       /\ SubSeq(rs, 1, ahead) \in {<<>>, ScaffoldBlock}
       /\ \A i \in 1..Len(nodes) :
            LET at == MainRecordIndex(i)
            IN /\ at > ahead
               /\ rs[at].type = nodes[i].data.terraformType
               /\ rs[at].name = ResourceName(nodes[i])
               /\ i \in S3Nodes =>
                    /\ rs[at + 1].type = "aws_s3_bucket_public_access_block"
                    /\ rs[at + 1].name = ResourceName(nodes[i])
                    /\ rs[at + 1].dependencies = <<ResourceRef(nodes[i])>>
               /\ i \notin S3Nodes =>
                    \/ i = Len(nodes) /\ at = Len(rs)
                    \/ i < Len(nodes) /\ MainRecordIndex(i + 1) = at + 1

\* C20 witness: an s3 node followed by another node, compiled: three node
\* records.
C20_Witness ==
  /\ Compiled
  /\ Len(nodes) = 2
  /\ S3Nodes = {1}
  /\ Len(result.output.resources) - InjectedCount = 3
  /\ MainRecordIndex(2) = MainRecordIndex(1) + 2

\* The strings held in a value, at any depth.
RECURSIVE StringsIn(_)
StringsIn(v) ==
  CASE v.t = "string" -> {v.s}
    [] v.t = "array" -> UNION {StringsIn(v.l[k]) : k \in 1..Len(v.l)}
    [] v.t = "object" -> UNION {StringsIn(v.o[k].v) : k \in 1..Len(v.o)}
    [] OTHER -> {}

\* A string of the form type.name or type.name.attr, the type one of a
\* provider's resource types.
IsResourceReference(s) ==
  /\ \E p \in {"aws_", "google_", "azurerm_"} : StartsWith(s, p)
  /\ IndexOf(".", s) > 0

\* The type.name a reference begins with.
ReferredResource(s) ==
  LET second == IndexFrom(".", s, IndexOf(".", s) + 1)
  IN IF second = 0 THEN s ELSE SubSeq(s, 1, second - 1)

\* The type.name of a `resource "type" "name" {` line.
DeclaredResource(line) ==
  LET q1 == IndexOf(Quote, line)
      q2 == IndexFrom(Quote, line, q1 + 1)
      q3 == IndexFrom(Quote, line, q2 + 1)
      q4 == IndexFrom(Quote, line, q3 + 1)
  IN SubSeq(line, q1 + 1, q2 - 1) \o "." \o SubSeq(line, q3 + 1, q4 - 1)

\* Every resource the text declares: the records' and the provider block's.
EmittedResources == {DeclaredResource(result.code[k]) : k \in ResourceLines(result.code)}

\* The references a record makes: in its attributes and in its depends_on.
ReferencesOf(resource) ==
  {s \in StringsIn(Obj(resource.config)) \cup Elements(resource.dependencies) :
     IsResourceReference(s)}

\* C21: for aws, gcp and azure, every resource reference in an attribute or
\* a depends_on list of an emitted record names a resource that the same
\* output emits.
C21_ReferentialIntegrity ==
  (Compiled /\ provider \in SupportedProviders) =>
    \A r \in 1..Len(result.output.resources) :
      \A s \in ReferencesOf(result.output.resources[r]) :
        ReferredResource(s) \in EmittedResources

\* C22: in the outputs document every output's value is written bare, as
\* the reference it is, and its description quoted.
C22_OutputValuesAreReferences ==
  Compiled =>
    \A i \in 1..Len(result.output.outputs) :
      LET name == result.output.outputs[i].k
          config == result.output.outputs[i].v
          start == CHOOSE k \in 1..Len(result.outputsCode) :
                     result.outputsCode[k] = "output " \o Quote \o name \o Quote \o " {"
      IN /\ IsResourceReference(Get(config, "value").s)
         /\ result.outputsCode[start + 1]
              = "  description = " \o Quote \o Get(config, "description").s \o Quote
         /\ result.outputsCode[start + 2] = "  value = " \o Get(config, "value").s

\* ------------------------------------------------------ InfrastructureCanvas
\* The canvas keeps the graph (nodes, edges), hands it to a
\* TerraformGenerator whenever it regenerates the files it shows, and holds
\* the selection and the node whose configuration panel is open.
MaxDrops == 2
MaxRegenerations == 2
MaxTimers == 1

\* The services the sidebar offers: definitions loadAllConfigs returned.
SidebarServices(p) ==
  CASE p = "aws" -> {ServiceNode("aws", "ec2", "EC2", "aws_instance")}
    [] OTHER -> {}

\* The configurations the panel hands to onConfigUpdate.
PanelConfigs == {<<Entry("instance_type", Str("t3.large"))>>}

\* The id addEdge gives an edge that has none.
EdgeId(source, target) == "xy-edge__" \o source \o "-" \o target

\* addEdge(newEdge, eds): eds when it already connects the two, else eds
\* with the edge appended.
addEdge(newEdge, eds) ==
  IF \E k \in 1..Len(eds) :
       eds[k].source = newEdge.source /\ eds[k].target = newEdge.target
  THEN eds
  ELSE Append(eds, [id |-> EdgeId(newEdge.source, newEdge.target),
                    source |-> newEdge.source, target |-> newEdge.target])

\* The nodes and edges a render's closures hold.
Snapshot(ns, es) == [nodes |-> ns, edges |-> es]

\* generateTerraformCode() of the canvas.  The last line of the text for an
\* empty canvas has no "\n" after it.
CanvasTerraformCode(p, cache, ns, es, t) ==
  IF Len(ns) = 0
  THEN <<"# No resources defined yet",
         "# Drag and drop services from the sidebar to generate Terraform code">>
  ELSE TerraformCode(generate(p, cache, ns, es, t))

DefaultVariablesTf ==
  <<"# Variables for your infrastructure",
    "variable \"region\" {", "  description = \"AWS region\"",
    "  type        = string", "  default     = \"us-west-2\"", "}", "",
    "variable \"environment\" {", "  description = \"Environment name\"",
    "  type        = string", "  default     = \"dev\"", "}">>

DefaultOutputsTf(count) ==
  <<"# Outputs for your infrastructure",
    "output \"resources_created\" {",
    "  description = \"Number of resources created\"",
    "  value       = " \o ToString(count), "}">>

DefaultProvidersTf ==
  <<"# Provider configuration", "terraform {", "  required_providers {",
    "    aws = {", "      source  = \"hashicorp/aws\"",
    "      version = \"~> 5.0\"", "    }", "  }", "}", "",
    "provider \"aws\" {", "  region = var.region", "}">>

\* What generateTerraformFiles() passes to setTerraformFiles.
generateTerraformFiles(p, cache, ns, es, t) ==
  LET output == generate(p, cache, ns, es, t)
      generatedOutputsTf == OutputsCode(output)
  IN IF Len(ns) > 0
     THEN [main |-> CanvasTerraformCode(p, cache, ns, es, t),
           variables |-> IF Len(output.variables) > 0
                         THEN <<"# Variables">> \o VariableBlocks(output.variables, 1)
                         ELSE DefaultVariablesTf,
           outputs |-> IF generatedOutputsTf # <<>> THEN generatedOutputsTf
                       ELSE DefaultOutputsTf(Len(ns)),
           providers |-> generateProviderBlock(p)]
     ELSE [main |-> CanvasTerraformCode(p, cache, ns, es, t),
           variables |-> DefaultVariablesTf,
           outputs |-> DefaultOutputsTf(Len(ns)),
           providers |-> DefaultProvidersTf]

\* useState("main.tf": "", "variables.tf": "", ...)
NoFiles == [main |-> <<>>, variables |-> <<>>, outputs |-> <<>>, providers |-> <<>>]

\* The files shown.  The state keeps the nodes and edges that the call which
\* last reached setTerraformFiles read; the files are what
\* generateTerraformFiles makes of them (the provider is fixed, the service
\* definitions are loaded and the clock stands still while the canvas is
\* mounted, so that they are a function of the two).
TerraformFilesShown ==
  IF terraformFiles = Null THEN NoFiles
  ELSE generateTerraformFiles(provider, configs, terraformFiles.nodes,
                              terraformFiles.edges, now)

\* The canvas mounted: an empty graph, the service definitions loaded (the
\* sidebar shows none before), and the regeneration its mount effects start.
InitCanvas ==
  /\ provider = "aws"
  /\ nodes = <<>>
  /\ edges = <<>>
  /\ now = 0
  /\ configs = UNION {loadedConfigs({}, p, PROVIDER_SERVICES(p)) :
                        p \in AVAILABLE_PROVIDERS}
  /\ result = NoResult
  /\ previous = NoResult
  /\ pc = 0
  /\ building = <<>>
  /\ returned = NoCall
  /\ nodeId = 0
  /\ selectedNodes = {}
  /\ selectedEdges = {}
  /\ selectedNode = Null
  /\ regenerations = {Snapshot(<<>>, <<>>)}
  /\ timers = {}
  /\ terraformFiles = Null
  /\ NoAgent /\ NoDeployment /\ NoRequest

\* What the canvas's operations leave alone.
offCanvas == <<provider, now, configs, result, previous, pc, building, returned,
               agentVars, deployVars, routeVars>>

\* useEffect(..., [nodes]): a new nodes array starts updateMainTf(), whose
\* generateTerraformFiles() reads the nodes and edges of that render.
Regenerating(ns, es) == regenerations \cup {Snapshot(ns, es)}

\* onDrop: a node of the service dragged, with the next id.
OnDrop ==
  \E service \in SidebarServices(provider) :
    /\ nodeId < MaxDrops
    /\ Cardinality(Regenerating(nodes, edges)) < MaxRegenerations
    /\ LET newNode == [id |-> NodeId(nodeId), data |-> service]
       IN /\ nodes' = Append(nodes, newNode)
          /\ regenerations' = Regenerating(Append(nodes, newNode), edges)
    /\ nodeId' = nodeId + 1
    /\ UNCHANGED <<edges, selectedNodes, selectedEdges, selectedNode, timers,
                   terraformFiles, offCanvas>>

\* onConnect, from the first node dropped to a later one: nothing when an
\* end is not a node of the canvas; else the edge is added.  No effect
\* depends on edges but the ones that log.
OnConnect ==
  \E source \in {NodeId(0)}, target \in {NodeId(k) : k \in 1..(MaxDrops - 1)} :
    /\ edges' = IF FindNode(nodes, source) = <<>> \/ FindNode(nodes, target) = <<>>
                THEN edges
                ELSE addEdge([source |-> source, target |-> target], edges)
    /\ UNCHANGED <<nodes, nodeId, selectedNodes, selectedEdges, selectedNode,
                   regenerations, timers, terraformFiles, offCanvas>>

\* What the user selects: one node, or the edges.
Selections ==
  {[nodes |-> {nodes[k].id}, edges |-> {}] : k \in 1..Len(nodes)}
  \cup {[nodes |-> {}, edges |-> {edges[k].id : k \in 1..Len(edges)}]}

\* handleSelectionChange: the ids of what is selected on the canvas.
HandleSelectionChange ==
  \E selection \in Selections :
    /\ selectedNodes' = selection.nodes
    /\ selectedEdges' = selection.edges
    /\ UNCHANGED <<nodes, edges, nodeId, selectedNode, regenerations, timers,
                   terraformFiles, offCanvas>>

\* deleteSelectedElements: the selected nodes leave nodes, the selected
\* edges leave edges.
DeleteSelectedElements ==
  /\ selectedNodes # {} \/ selectedEdges # {}
  /\ LET keepNode(node) == node.id \notin selectedNodes
         keepEdge(edge) == edge.id \notin selectedEdges
     IN /\ nodes' = IF selectedNodes # {} THEN SelectSeq(nodes, keepNode) ELSE nodes
        /\ edges' = IF selectedEdges # {} THEN SelectSeq(edges, keepEdge) ELSE edges
        /\ regenerations' = IF selectedNodes # {}
                            THEN Regenerating(SelectSeq(nodes, keepNode),
                                              SelectSeq(edges, keepEdge))
                            ELSE regenerations
  /\ Cardinality(regenerations') <= MaxRegenerations
  /\ selectedNodes' = {}
  /\ selectedEdges' = {}
  /\ UNCHANGED <<nodeId, selectedNode, timers, terraformFiles, offCanvas>>

\* clearCanvas
ClearCanvas ==
  /\ nodes' = <<>>
  /\ edges' = <<>>
  /\ regenerations' = Regenerating(<<>>, <<>>)
  /\ Cardinality(regenerations') <= MaxRegenerations
  /\ UNCHANGED <<nodeId, selectedNodes, selectedEdges, selectedNode, timers,
                 terraformFiles, offCanvas>>

\* handleNodeDoubleClick: the configuration panel opens on a node.
HandleNodeDoubleClick ==
  \E k \in 1..Len(nodes) :
    /\ selectedNode' = [id |-> nodes[k].id]
    /\ UNCHANGED <<nodes, edges, nodeId, selectedNodes, selectedEdges,
                   regenerations, timers, terraformFiles, offCanvas>>

\* handleCloseConfigPanel
HandleCloseConfigPanel ==
  /\ selectedNode # Null
  /\ selectedNode' = Null
  /\ UNCHANGED <<nodes, edges, nodeId, selectedNodes, selectedEdges,
                 regenerations, timers, terraformFiles, offCanvas>>

\* handleConfigUpdate: the node's config is replaced, which starts the
\* effect's regeneration from the new nodes; and a timeout is set for
\* updateMainTf() of the render the handler belongs to, whose nodes and
\* edges are those from before the update.
HandleConfigUpdate ==
  \E config \in PanelConfigs :
    /\ selectedNode # Null
    /\ Cardinality(timers \cup {Snapshot(nodes, edges)}) <= MaxTimers
    /\ LET updated == [k \in 1..Len(nodes) |->
                         IF nodes[k].id = selectedNode.id
                         THEN [nodes[k] EXCEPT !.data.config = config]
                         ELSE nodes[k]]
       IN /\ nodes' = updated
          /\ regenerations' = Regenerating(updated, edges)
    /\ Cardinality(regenerations') <= MaxRegenerations
    /\ timers' = timers \cup {Snapshot(nodes, edges)}
    /\ UNCHANGED <<edges, nodeId, selectedNodes, selectedEdges, selectedNode,
                   terraformFiles, offCanvas>>

\* The timeout of handleConfigUpdate fires: updateMainTf() of that render.
ConfigUpdateTimeout ==
  \E t \in timers :
    /\ timers' = timers \ {t}
    /\ regenerations' = regenerations \cup {t}
    /\ Cardinality(regenerations') <= MaxRegenerations
    /\ UNCHANGED <<nodes, edges, nodeId, selectedNodes, selectedEdges, selectedNode,
                   terraformFiles, offCanvas>>

\* handleSaveConfig: updateAllTerraformFiles() of the current render.
HandleSaveConfig ==
  /\ selectedNode # Null
  /\ regenerations' = Regenerating(nodes, edges)
  /\ Cardinality(regenerations') <= MaxRegenerations
  /\ UNCHANGED <<nodes, edges, nodeId, selectedNodes, selectedEdges, selectedNode,
                 timers, terraformFiles, offCanvas>>

\* A generateTerraformFiles() in flight gets through its awaits and sets
\* the files.  Calls in flight finish in any order: each awaits the
\* generator once per node, three times over.
SetTerraformFiles ==
  \E r \in regenerations :
    /\ terraformFiles' = r
    /\ regenerations' = regenerations \ {r}
    /\ UNCHANGED <<nodes, edges, nodeId, selectedNodes, selectedEdges, selectedNode,
                   timers, offCanvas>>

NextCanvas ==
  \/ OnDrop
  \/ OnConnect
  \/ HandleSelectionChange
  \/ DeleteSelectedElements
  \/ ClearCanvas
  \/ HandleNodeDoubleClick
  \/ HandleCloseConfigPanel
  \/ HandleConfigUpdate
  \/ ConfigUpdateTimeout
  \/ HandleSaveConfig
  \/ SetTerraformFiles

SpecCanvas == InitCanvas /\ [][NextCanvas]_vars

\* C23: whatever the canvas has been through (drops, connections, deletions
\* of the selection, clearing), every edge it holds has its source and its
\* target among the nodes it holds.
C23_EdgesNeverDangle ==
  \A k \in 1..Len(edges) :
    /\ FindNode(nodes, edges[k].source) # <<>>
    /\ FindNode(nodes, edges[k].target) # <<>>

\* Nothing of the canvas is under way: no generateTerraformFiles() in
\* flight and no timeout waiting to start one.
CanvasAtRest == regenerations = {} /\ timers = {}

\* C27: once the canvas is at rest, the files shown are the files generated
\* from the nodes and the edges it holds now.
C27_FilesConverge ==
  CanvasAtRest =>
    TerraformFilesShown = generateTerraformFiles(provider, configs, nodes, edges, now)

\* ------------------------------------- infrastructure-manager and AgentChat
\* The chat proposes plans (lists of components); confirming one hands its
\* components to addInfrastructureToCanvas, which makes nodes of them and
\* calls the function a canvas registered.
MaxMessages == 2

\* Components of the web application the assistant's route proposes: the
\* storage bucket, whose service has a definition file, and the queue, whose
\* service has none, here without the provider, which the conversion
\* defaults.
BucketComponent ==
  <<Entry("id", Str("s3-bucket")), Entry("name", Str("Storage Bucket")),
    Entry("provider", Str("aws")), Entry("service", Str("s3")),
    Entry("config", Obj(<<Entry("name", Str("web-app-storage-bucket")),
                          Entry("versioning", Bool(TRUE)),
                          Entry("public_read", Bool(FALSE))>>))>>

QueueComponent ==
  <<Entry("id", Str("sqs-queue")), Entry("name", Str("Message Queue")),
    Entry("service", Str("sqs")),
    Entry("config", Obj(<<Entry("name", Str("web-app-queue")),
                          Entry("delay_seconds", Num(0))>>))>>

\* response.createInfrastructure of a plan.
Plans == {<<BucketComponent>>, <<QueueComponent, BucketComponent>>}

\* convertApiResponseToComponents, less the position.
convertApiResponseToComponents(createInfrastructure) ==
  [index \in 1..Len(createInfrastructure) |->
     LET component == createInfrastructure[index]
         id == Or(Get(component, "id"), Str("component-" \o ToString(index - 1)))
     IN [id |-> id.s,
         name |-> Or(Get(component, "name"), Get(component, "id")).s,
         provider |-> Or(Get(component, "provider"), Str("aws")).s,
         service |-> Or(Get(component, "service"), Str("unknown")).s,
         config |-> Or(Get(component, "config"), Obj(<<>>)).o]]

\* The node addInfrastructureToCanvas makes of a component.  The service
\* definition it loads (or its fallback) is spread first and then overridden
\* in every field the node keeps here.
ComponentNode(component) ==
  [id |-> component.id,
   data |-> [id |-> component.id,
             name |-> component.name,
             service |-> component.service,
             provider |-> component.provider,
             config |-> component.config,
             terraformType |-> component.service]]

ComponentNodes(components) ==
  [k \in 1..Len(components) |-> ComponentNode(components[k])]

\* The chat open on a project's page: no canvas registered yet, no plan.
InitAgent ==
  /\ provider = "aws"
  /\ nodes = <<>>
  /\ edges = <<>>
  /\ now = 0
  /\ configs = {}
  /\ result = NoResult
  /\ previous = NoResult
  /\ pc = 0
  /\ building = <<>>
  /\ returned = NoCall
  /\ globalAddNodesToCanvas = FALSE
  /\ added = <<>>
  /\ messages = <<>>
  /\ adding = {}
  /\ NoCanvas /\ NoDeployment /\ NoRequest

offAgent == <<provider, nodes, edges, now, result, previous, pc, building, returned,
              canvasVars, deployVars, routeVars>>

\* The assistant answers with a plan: a message with createInfrastructure,
\* not confirmed.  outcome is which return of addInfrastructureToCanvas the
\* message's confirmation met, "none" before it met one.
ReceivePlan ==
  \E plan \in Plans :
    /\ Len(messages) < MaxMessages
    /\ messages' = Append(messages,
                          [id |-> "agent_" \o ToString(Len(messages) + 1),
                           createInfrastructure |-> plan,
                           confirmed |-> FALSE,
                           outcome |-> "none"])
    /\ UNCHANGED <<globalAddNodesToCanvas, added, adding, configs, offAgent>>

\* handleConfirmPlan up to the await in addInfrastructureToCanvas.  With no
\* canvas registered the call returns false at once and the message is set
\* confirmed; with one it waits for the service definitions to load.  The
\* button is pressed once while a confirmation is under way.
HandleConfirmPlan ==
  \E k \in 1..Len(messages) :
    /\ ~messages[k].confirmed
    /\ \A call \in adding : call.messageId # messages[k].id
    /\ LET components ==
             convertApiResponseToComponents(messages[k].createInfrastructure)
       IN IF ~globalAddNodesToCanvas
          THEN /\ messages' = [messages EXCEPT ![k].confirmed = TRUE,
                                               ![k].outcome = "no canvas"]
               /\ adding' = adding
          ELSE /\ adding' = adding \cup {[messageId |-> messages[k].id,
                                          components |-> components]}
               /\ messages' = messages
    /\ UNCHANGED <<globalAddNodesToCanvas, added, configs, offAgent>>

\* The definitions have loaded: the nodes are handed to the registered
\* function and true is returned, or, the canvas having unregistered in the
\* meantime, the call of null throws and the catch returns false.  Either
\* way handleConfirmPlan sets the message confirmed.
AddInfrastructureToCanvas ==
  \E call \in adding :
    LET k == CHOOSE i \in 1..Len(messages) : messages[i].id = call.messageId
    IN /\ adding' = adding \ {call}
       /\ configs' = configs \cup
            UNION {loadedConfigs({}, call.components[i].provider,
                                 {call.components[i].service}) :
                     i \in 1..Len(call.components)}
       /\ added' = IF globalAddNodesToCanvas
                   THEN added \o ComponentNodes(call.components)
                   ELSE added
       /\ messages' = [messages EXCEPT
                         ![k].confirmed = TRUE,
                         ![k].outcome = IF globalAddNodesToCanvas THEN "added"
                                        ELSE "failed"]
       /\ UNCHANGED <<globalAddNodesToCanvas, offAgent>>

\* registerCanvasFunctions: a canvas has mounted.
RegisterCanvasFunctions ==
  /\ ~globalAddNodesToCanvas
  /\ globalAddNodesToCanvas' = TRUE
  /\ UNCHANGED <<added, messages, adding, configs, offAgent>>

\* unregisterCanvasFunctions: the canvas has unmounted.
UnregisterCanvasFunctions ==
  /\ globalAddNodesToCanvas
  /\ globalAddNodesToCanvas' = FALSE
  /\ UNCHANGED <<added, messages, adding, configs, offAgent>>

NextAgent ==
  \/ ReceivePlan
  \/ HandleConfirmPlan
  \/ AddInfrastructureToCanvas
  \/ RegisterCanvasFunctions
  \/ UnregisterCanvasFunctions

SpecAgent == InitAgent /\ [][NextAgent]_vars

\* The service definitions a sidebar offers, as onDrop makes node data of
\* them.
serviceDefinitions(p) == {d \in NodeData(p) : d.id \in PROVIDER_SERVICES(p)}

\* C24: a node the manager handed to the canvas, for a service the sidebar
\* offers, has the data.id and the terraformType of the node that dropping
\* the service makes.
C24_AddedLikeDropped ==
  \A k \in 1..Len(added) :
    \A dropped \in serviceDefinitions(added[k].data.provider) :
      dropped.id = added[k].data.service =>
        /\ added[k].data.id = dropped.id
        /\ added[k].data.terraformType = dropped.terraformType

\* The ids of the nodes handed to a canvas so far.
AddedIds == {added[k].id : k \in 1..Len(added)}

\* C25: once a canvas is registered and no call is under way, every
\* component that was passed while none was registered has been handed to
\* a canvas.
C25_QueuedComponentsAdded ==
  (globalAddNodesToCanvas /\ adding = {}) =>
    \A k \in 1..Len(messages) :
      messages[k].outcome = "no canvas" =>
        \A i \in 1..Len(messages[k].createInfrastructure) :
          convertApiResponseToComponents(messages[k].createInfrastructure)[i].id
            \in AddedIds

\* C26: a message is confirmed only if addInfrastructureToCanvas returned
\* true for its components.
C26_ConfirmedOnlyWhenAdded ==
  \A k \in 1..Len(messages) :
    messages[k].confirmed => messages[k].outcome = "added"

\* ------------------------------------------------- deploying from the canvas
\* handleDeploy sends the graph to the deployment service and then polls the
\* deployment's status.  deployInfrastructure, getDeploymentStatus and
\* CredentialManager are not part of the canvas: what they return is an
\* input of each step.
PollPeriod == 2000
PollCutoff == 600000

\* What getDeploymentStatus returns: nothing, or the deployment's status.
DeploymentStatus(status, error) == [t |-> "status", status |-> status, error |-> error]

Statuses ==
  {Undefined}
  \cup {DeploymentStatus(s, Undefined) :
          s \in {"pending", "running", "completed", "failed", "cancelled"}}
  \cup {DeploymentStatus("failed", Str("terraform apply failed"))}

\* What deployInfrastructure does: answers with a deployment, answers with
\* a failure, with or without its error, or throws.
DeployResults ==
  {[success |-> TRUE, deploymentId |-> "deployment_1", error |-> Undefined, throws |-> FALSE],
   [success |-> FALSE, deploymentId |-> "", error |-> Undefined, throws |-> FALSE],
   [success |-> FALSE, deploymentId |-> "", error |-> Str("Invalid credentials"), throws |-> FALSE],
   [success |-> FALSE, deploymentId |-> "", error |-> Str("Network error"), throws |-> TRUE]}

\* The canvas with nothing deployed, empty or holding one instance.
InitDeploy ==
  /\ provider = "aws"
  /\ nodes \in {<<>>, <<[id |-> NodeId(0),
                         data |-> ServiceNode("aws", "ec2", "EC2", "aws_instance")]>>}
  /\ edges = <<>>
  /\ now = 0
  /\ configs = {}
  /\ result = NoResult
  /\ previous = NoResult
  /\ pc = 0
  /\ building = <<>>
  /\ returned = NoCall
  /\ NoCanvas /\ NoAgent /\ NoDeployment /\ NoRequest

offDeploy == <<generatorVars, canvasVars, agentVars, routeVars>>

\* handleDeploy up to its await.  The button is disabled while isDeploying,
\* and is pressed again only when the timers of the last deployment are
\* gone.
HandleDeploy ==
  \E hasCredentials \in BOOLEAN :
    /\ ~isDeploying
    /\ ~pollInterval /\ ~cutoff
    /\ IF Len(nodes) = 0
       THEN /\ deploymentError' =
                 Str("No infrastructure defined. Please add some services to deploy.")
            /\ UNCHANGED <<isDeploying, deploymentStatus, deployment>>
       ELSE IF ~hasCredentials
       THEN /\ deploymentError' =
                 Str("No AWS credentials configured. Please configure credentials in settings.")
            /\ UNCHANGED <<isDeploying, deploymentStatus, deployment>>
       ELSE /\ isDeploying' = TRUE
            /\ deploymentError' = Null
            /\ deploymentStatus' = Null
            /\ deployment' = [t |-> "request"]
    /\ UNCHANGED <<pollInterval, cutoff, elapsed, offDeploy>>

\* handleDeploy after its await: on success startDeploymentPolling sets the
\* interval and the ten-minute timeout; on failure, or in the catch, the
\* error is shown and isDeploying is set false.
DeployInfrastructureReturns ==
  \E res \in DeployResults :
    /\ deployment = [t |-> "request"]
    /\ IF res.success
       THEN /\ deployment' = [t |-> "deployment", id |-> res.deploymentId]
            /\ pollInterval' = TRUE
            /\ cutoff' = TRUE
            /\ elapsed' = 0
            /\ UNCHANGED <<isDeploying, deploymentError>>
       ELSE /\ deployment' = Null
            /\ deploymentError' =
                 IF res.throws THEN res.error
                 ELSE Or(res.error, Str("Deployment failed"))
            /\ isDeploying' = FALSE
            /\ UNCHANGED <<pollInterval, cutoff, elapsed>>
    /\ UNCHANGED <<deploymentStatus, offDeploy>>

\* The interval's callback, every PollPeriod until it is cleared.
Poll ==
  \E status \in Statuses :
    /\ pollInterval
    /\ elapsed + PollPeriod <= PollCutoff
    /\ elapsed' = elapsed + PollPeriod
    /\ IF status # Undefined
       THEN /\ deploymentStatus' = status
            /\ IF status.status \in {"completed", "failed", "cancelled"}
               THEN /\ pollInterval' = FALSE
                    /\ isDeploying' = FALSE
                    /\ deploymentError' =
                         IF status.status = "failed"
                         THEN Or(status.error, Str("Deployment failed"))
                         ELSE deploymentError
               ELSE UNCHANGED <<pollInterval, isDeploying, deploymentError>>
       ELSE /\ pollInterval' = FALSE
            /\ isDeploying' = FALSE
            /\ deploymentError' = Str("Deployment status not found")
            /\ UNCHANGED deploymentStatus
    /\ UNCHANGED <<deployment, cutoff, offDeploy>>

\* The timeout's callback, PollCutoff after polling started: it clears the
\* interval and nothing else.  At PollCutoff itself either callback may
\* come first.
Cutoff ==
  /\ cutoff
  /\ ~pollInterval \/ elapsed + PollPeriod >= PollCutoff
  /\ cutoff' = FALSE
  /\ pollInterval' = FALSE
  /\ elapsed' = PollCutoff
  /\ UNCHANGED <<isDeploying, deploymentStatus, deploymentError, deployment, offDeploy>>

NextDeploy ==
  \/ HandleDeploy
  \/ DeployInfrastructureReturns
  \/ Poll
  \/ Cutoff

SpecDeploy == InitDeploy /\ [][NextDeploy]_vars

\* C28: while isDeploying is true something is under way that will set it
\* false: the deployment request is awaited, or the status is polled.
C28_DeployingEnds ==
  isDeploying => (deployment = [t |-> "request"] \/ pollInterval)

\* ------------------------------------------------------ the terraform routes
\* The plan, apply and output routes each check their request, spawn
\* terraform in the working directory and answer with what
\* executeTerraformCommand resolved.  One request is served at a time.
\* The request bodies: the working directory absent, missing on disk or
\* there, the plan file likewise, autoApprove absent, false or true.
Bodies ==
  [workingDirectory : {Undefined, Str("/tmp/missing"), Str("/tmp/project")},
   planFile : {Undefined, Str("missing.tfplan"), Str("tfplan")},
   autoApprove : {Undefined, Bool(FALSE), Bool(TRUE)}]

\* existsSync when the request arrives.
existsSync(path) == path \in {Str("/tmp/project"), Str("tfplan")}

JsonError(status, error) ==
  [status |-> status, body |-> [t |-> "error", error |-> error]]

\* What the close handler resolves the promise with.
Closed(code, output, error) ==
  [t |-> "result",
   success |-> (code = Num(0)),
   output |-> Str(output),
   error |-> Or(Str(error), Undefined),
   exitCode |-> Or(code, Num(1))]

\* What the error handler resolves it with.
Failed(message) ==
  [t |-> "result", success |-> FALSE, output |-> Str(""), error |-> Str(message),
   exitCode |-> Num(1)]

\* The route after its await.  The plan route answers 500 when the command
\* succeeded and the plan file asked for is not there; the statistics it
\* parses from the output are not carried in the answer here.
Answer(req, res, planFileExists) ==
  IF /\ req.route = "plan"
     /\ Truthy(req.planFile)
     /\ ~planFileExists
     /\ res.success
  THEN JsonError(500, "Plan file was not created despite successful plan command")
  ELSE [status |-> 200, body |-> res]

InitRoutes ==
  /\ provider = "aws"
  /\ nodes = <<>>
  /\ edges = <<>>
  /\ now = 0
  /\ configs = {}
  /\ result = NoResult
  /\ previous = NoResult
  /\ pc = 0
  /\ building = <<>>
  /\ returned = NoCall
  /\ NoCanvas /\ NoAgent /\ NoDeployment /\ NoRequest

offRoutes == <<generatorVars, canvasVars, agentVars, deployVars>>

\* POST /api/terraform/plan up to its await.
PostPlan ==
  \E body \in Bodies :
    /\ terraform = Null
    /\ request' = [route |-> "plan", workingDirectory |-> body.workingDirectory,
                   planFile |-> body.planFile, autoApprove |-> body.autoApprove]
    /\ IF ~Truthy(body.workingDirectory)
       THEN /\ response' = JsonError(400, "Working directory is required")
            /\ terraform' = Null
       ELSE /\ response' = Null
            /\ terraform' = [command |-> "plan",
                             args |-> IF Truthy(body.planFile)
                                      THEN <<"-out", body.planFile.s>>
                                      ELSE <<>>,
                             cwd |-> body.workingDirectory.s]
    /\ UNCHANGED offRoutes

\* POST of the apply route up to its await.
PostApply ==
  \E body \in Bodies :
    /\ terraform = Null
    /\ request' = [route |-> "apply", workingDirectory |-> body.workingDirectory,
                   planFile |-> body.planFile, autoApprove |-> body.autoApprove]
    /\ IF ~Truthy(body.workingDirectory)
       THEN /\ response' = JsonError(400, "Working directory is required")
            /\ terraform' = Null
       ELSE IF /\ Truthy(body.planFile)
               /\ ~existsSync(body.planFile)
               /\ ~Truthy(body.autoApprove)
       THEN /\ response' = JsonError(400, "Plan file not found: " \o body.planFile.s
                 \o ". Please run terraform plan first or enable auto-approve.")
            /\ terraform' = Null
       ELSE IF ~existsSync(body.workingDirectory)
       THEN /\ response' = JsonError(400, "Working directory does not exist: "
                                          \o body.workingDirectory.s)
            /\ terraform' = Null
       ELSE /\ response' = Null
            /\ terraform' = [command |-> "apply",
                             args |-> IF Truthy(body.planFile) /\ existsSync(body.planFile)
                                      THEN <<body.planFile.s>>
                                      ELSE IF Truthy(body.autoApprove)
                                      THEN <<"-auto-approve">>
                                      ELSE <<>>,
                             cwd |-> body.workingDirectory.s]
    /\ UNCHANGED offRoutes

\* POST /api/terraform/output up to its await.
PostOutput ==
  \E body \in Bodies :
    /\ terraform = Null
    /\ request' = [route |-> "output", workingDirectory |-> body.workingDirectory,
                   planFile |-> body.planFile, autoApprove |-> body.autoApprove]
    /\ IF ~Truthy(body.workingDirectory)
       THEN /\ response' = JsonError(400, "Working directory is required")
            /\ terraform' = Null
       ELSE /\ response' = Null
            /\ terraform' = [command |-> "output", args |-> <<"-json">>,
                             cwd |-> body.workingDirectory.s]
    /\ UNCHANGED offRoutes

\* The process closes, with an exit status or with null after a signal: the
\* promise resolves and the route answers.  A plan file that was not there
\* may have been written by the command.
TerraformCloses ==
  \E code \in {Num(0), Num(1), Num(2), Null},
     output \in {"", "No changes. Your infrastructure matches the configuration."},
     error \in {"", "Error: No configuration files"},
     written \in BOOLEAN :
    /\ terraform # Null
    /\ existsSync(Str(terraform.cwd))
    /\ response' = Answer(request, Closed(code, output, error),
                          existsSync(request.planFile) \/ written)
    /\ terraform' = Null
    /\ UNCHANGED <<request, offRoutes>>

\* The process could not be spawned (no terraform on the path, no such
\* working directory): the error event resolves the promise.
TerraformErrors ==
  \E message \in {"spawn terraform ENOENT"} :
    /\ terraform # Null
    /\ response' = Answer(request, Failed(message), existsSync(request.planFile))
    /\ terraform' = Null
    /\ UNCHANGED <<request, offRoutes>>

NextRoutes ==
  \/ PostPlan
  \/ PostApply
  \/ PostOutput
  \/ TerraformCloses
  \/ TerraformErrors

SpecRoutes == InitRoutes /\ [][NextRoutes]_vars

\* C29: every result a route answers with has success true exactly when
\* its exitCode is 0.
C29_SuccessIffExitCodeZero ==
  (response # Null /\ response.body.t = "result") =>
    (response.body.success <=> response.body.exitCode = Num(0))

\* An apply's argument list holds a plan file that exists, or -auto-approve.
Approved(args) ==
  \/ \E k \in 1..Len(args) : existsSync(Str(args[k]))
  \/ \E k \in 1..Len(args) : args[k] = "-auto-approve"

\* The apply requests the route is to refuse.
Refused(req) ==
  \/ ~Truthy(req.workingDirectory)
  \/ ~existsSync(req.workingDirectory)
  \/ Truthy(req.planFile) /\ ~existsSync(req.planFile) /\ ~Truthy(req.autoApprove)

\* C30: terraform apply is spawned only with a plan file that exists or
\* with -auto-approve, and a request that is to be refused is answered 400
\* with no process spawned.
C30_ApplyOnlyApproved ==
  (request # Null /\ request.route = "apply") =>
    /\ terraform # Null => Approved(terraform.args)
    /\ Refused(request) => (terraform = Null /\ response.status = 400)

====
